---- MODULE Spec2Model ----
(***************************************************************************)
(* Model of the nu-plugin runtime (package nu): the dispatcher main loop,  *)
(* one Call/Run with its handler goroutine, the response slot of its       *)
(* ExecCommand, the list/raw output stream it may open and the list input  *)
(* stream it may consume.  The engine is the environment: it may send any  *)
(* frame at any time.  The plugin's output is recorded in `wire`.          *)
(***************************************************************************)
EXTENDS Integers, Sequences, FiniteSets, TLC

\* ---- bounds of the model ------------------------------------------------
MaxRet == 2        \* Return* calls the handler makes
MaxSend == 2       \* values the handler sends on its list channel
MaxWrite == 2      \* Write calls the handler makes on its raw writer
MaxAck == 2        \* Ack frames the engine sends for one stream id
MaxDrop == 2       \* Drop frames the engine sends for one stream id
MaxData == 2       \* Data frames the engine sends for the input stream
BufSize == 2        \* rawStreamCfg.bufSize chosen for the raw stream
MaxChunk == 2       \* longest Write the handler makes
MaxFlood == 12      \* Data frames of an engine that sends them without waiting
MaxFrames == 2      \* frames each goroutine writes
FrameLen == 2       \* bytes of a serialized frame
IdBits == 3         \* width of Plugin.idGen in the model (atomic.Uint32 in the source)
MaxAlloc == 9       \* ids taken from Plugin.idGen
MaxOps == 3         \* CustomValueOp calls the engine makes
IntBits == 3        \* width of the integers of an IntRange in the model (int64 in the source)

\* ---- program constants --------------------------------------------------
BufCap == 10       \* capacity of listStreamIn.buf
SentCap == 1       \* capacity of the `sent` channel of an output stream

WriteLens == {1, 2}         \* lengths of the handler's Write calls
CallIds == {7}              \* call id the engine gives the Run
InIds == {1}                \* stream id the engine gives the input stream
FrameIds == {1}             \* stream ids the engine names in Ack/Drop/Data/End
BadCallIds == {8}           \* call id of a Call frame that fails to decode
CvCallIds == {9}            \* call id of a Call frame with a CustomValueOp
CvIds == {1, 2}             \* handle ids the engine names in CustomValueOp
EcIds == {1, 2}             \* ids the engine names in EngineCallResponse

VARIABLES
    mloop,      \* mainMsgLoop / Run position
    loopErr,    \* value mainMsgLoop returned
    runCtx,     \* the context given to Run: "live" or "Canceled"
    lastErr,    \* error returned by the last handleMessage ("nil" if none)
    ackRcvd,    \* Ack frames handled, per stream id
    dropRcvd,   \* Drop frames handled, per stream id
    lastAck,    \* per stream id, what ack() returned for the latest Ack if no
                \* Data frame has been written for the id since ("-" otherwise)
    idGen,      \* Plugin.idGen
    outs,       \* Plugin.outs: ids of registered output streams
    inls,       \* Plugin.inls: ids of registered input streams
    wire,       \* frames written to Plugin.out, in order
    callID,     \* ExecCommand.callID
    hpc,        \* position of the handler goroutine started by handleRun
    output,     \* ExecCommand.output (the response slot)
    hctx,       \* cause of the handler's context ("none" while it is live)
    inFlight,   \* the ExecCommand is registered in Plugin.runs
    usr,        \* what the handler's OnRun has done so far
    ost,        \* the output stream held in ExecCommand.output
    pipe,       \* the io.Pipe of a raw output stream
    ist,        \* the list input stream of the call
    consumed,   \* Values the handler has read from its input channel
    rcvd,       \* Values handed to listStreamIn.received
    engc,       \* Plugin.engc: ids of the engine calls waiting for a response
    ch,         \* the channels in Plugin.engc, per engine call id: what each holds
    cfg,        \* evalArguments of an EvalClosure: its run goroutine
    rest,       \* what a failed decode left unread of its frame in Plugin.in
    badCall,    \* id of the Call frame whose decode failed (0 if none)
    lastMsg,    \* what the main loop decoded last
    co,         \* a second goroutine that makes an engine call: its position
                \* and the id of its call
    issued,     \* the ids p.idGen.Add(1) has returned, with the allocation site
    mtx,        \* Plugin.m: the goroutine that holds it ("free" if none)
    wr,         \* per goroutine that writes frames: its position in outputMsg
    outb,       \* the bytes written to Plugin.out, in order
    acq,        \* the frames in the order their writers locked Plugin.m
    cvals,      \* Plugin.cvals: the handle ids in the table
    cvw,        \* the handle id a goroutine is storing into Plugin.cvals (0 if none)
    cvCalls,    \* number of CustomValue methods invoked
    rng,        \* an IntRange
    it,         \* the loop of the iterator IntRange.All returned
    yielded,    \* the values the iterator has yielded, in order
    engine      \* the engine of this run: the Data frames it sends for the
                \* input stream at most, and whether it answers an engine call
                \* with a stream

vars == <<mloop, loopErr, runCtx, lastErr, ackRcvd, dropRcvd, lastAck, idGen, outs, inls,
          wire, callID, hpc, output, hctx, inFlight, usr, ost, pipe, ist,
          consumed, rcvd, engc, ch, cfg, rest, badCall,
          lastMsg, co, issued, mtx, wr, outb, acq, cvals, cvw, cvCalls, rng, it,
          yielded, engine>>

dispVars == <<mloop, loopErr, lastErr, ackRcvd, dropRcvd>>
handVars == <<callID, hpc, output, inFlight, usr>>
inVars == <<ist, consumed, rcvd>>
decVars == <<rest, badCall>>
ecVars == <<engc, ch, cfg>>
lockVars == <<mtx, wr, outb, acq>>
cvVars == <<cvals, cvw, cvCalls>>
rngVars == <<rng, it, yielded>>
otherVars == <<co, issued, lockVars, cvVars, rngVars, engine>>
plugVars == <<lastAck, dispVars, runCtx, idGen, outs, inls, wire, hctx, ost, pipe,
              handVars, inVars, decVars, ecVars, lastMsg>>

\* ---- frames -------------------------------------------------------------
Frame(t, id, k, v) == [t |-> t, id |-> id, k |-> k, v |-> v]

CallResponse(id, k, v) == Frame("CallResponse", id, k, v)
DataFrame(id, k, v) == Frame("Data", id, k, v)
EndFrame(id) == Frame("End", id, "-", 0)
AckFrame(id) == Frame("Ack", id, "-", 0)
DropFrame(id) == Frame("Drop", id, "-", 0)

\* a decoded top-level message: its tag and the id it names (0 if none)
Msg(tag, id) == [tag |-> tag, id |-> id]

\* Plugin.outputMsg: the frame is appended to the output under the writer mutex
outputMsg(w, f) == Append(w, f)

\* a Data frame for stream id goes out: an Ack that follows answers it
dataWritten(hist, id) == [hist EXCEPT ![id] = "-"]

\* positions of the frames of kind t for id on the wire
Pos(t, id) == {i \in 1..Len(wire) : wire[i].t = t /\ wire[i].id = id}
Count(t, id) == Cardinality(Pos(t, id))

Min(a, b) == IF a < b THEN a ELSE b

\* ---- contexts -----------------------------------------------------------
\* context.CancelCauseFunc: the first cancellation fixes the cause, and a nil
\* cause is reported as context.Canceled
cancelCause(cur, cause) ==
    IF cur # "none" THEN cur
    ELSE IF cause = "nil" THEN "Canceled" ELSE cause

\* context.WithCancelCause(ctx) in handleRun: a child of the run context
childCtx(parent) == IF parent = "live" THEN "none" ELSE "Canceled"

\* ---- initial state ------------------------------------------------------
NoStream == [kind |-> "none", id |-> 0, pc |-> "none", val |-> 0, sent |-> 0,
             done |-> FALSE, chClosed |-> FALSE, sp |-> 0, eof |-> FALSE,
             onDrop |-> FALSE, buf |-> <<>>, err |-> "-"]
NoPipe == [rerr |-> "nil", werr |-> "nil", pend |-> <<>>]
NoInput == [id |-> 0, buf |-> <<>>, bufClosed |-> FALSE, wpc |-> "none",
            item |-> 0, closed |-> FALSE, kind |-> "none", rclosed |-> FALSE,
            failed |-> {}]
NoUsr == [rets |-> 0, sends |-> 0, writes |-> 0, lastRet |-> "-",
          retRes |-> "-", wres |-> "-", wclosed |-> FALSE, err |-> "nil", ec |-> 0,
          wrote |-> <<>>]
NoCfg == [pc |-> "none", id |-> 0, val |-> 0, taken |-> 0, argClosed |-> FALSE]
NoCo == [pc |-> "none", ec |-> 0]

\* the ids a channel of Plugin.engc can be registered under
ChanIds == 1..(MaxRet + 3)
NoChans == [i \in ChanIds |-> "none"]

\* the goroutines that write frames: the main loop, a handler, the run loop
\* of an output stream
Writers == {"main", "handler", "run"}
NoWriter == [pc |-> "idle", k |-> 0, n |-> 0]

\* IntRange{} and no iterator
NoRange == [Start |-> 0, Step |-> 0, End |-> 0, Bound |-> "Included"]
NoIt == [pc |-> "none", i |-> 0, ok |-> TRUE, end |-> 0]
NoIter == rng = NoRange /\ it = NoIt /\ yielded = <<>>

\* the Plugin as New returns it: nothing registered, nothing written
Constructed ==
    /\ loopErr = "none"
    /\ runCtx = "live"
    /\ lastErr = "nil"
    /\ ackRcvd = [i \in FrameIds |-> 0]
    /\ dropRcvd = [i \in FrameIds |-> 0]
    /\ lastAck = [i \in FrameIds |-> "-"]
    /\ idGen = 0
    /\ outs = {}
    /\ inls = {}
    /\ wire = <<>>
    /\ callID = 0
    /\ hpc = "idle"
    /\ output = "nil"
    /\ hctx = "none"
    /\ inFlight = FALSE
    /\ usr = NoUsr
    /\ ost = NoStream
    /\ pipe = NoPipe
    /\ ist = NoInput
    /\ consumed = <<>>
    /\ rcvd = <<>>
    /\ engc = {}
    /\ ch = NoChans
    /\ cfg = NoCfg
    /\ rest = "none"
    /\ badCall = 0
    /\ lastMsg = Msg("none", 0)
    /\ co = NoCo
    /\ issued = <<>>
    /\ mtx = "free"
    /\ wr = [g \in Writers |-> NoWriter]
    /\ outb = <<>>
    /\ acq = <<>>
    /\ cvals = {}
    /\ cvw = 0
    /\ cvCalls = 0

\* Run has sent the encoding marker and Hello and enters mainMsgLoop; the two
\* frames are left out of the output of the specifications that start here
\* an engine that sends a few Data frames, fewer than listStreamIn.buf holds,
\* and answers every engine call with a Value
FewData == engine = [maxData |-> MaxData, streams |-> FALSE]

Init == mloop = "reading" /\ Constructed /\ NoIter /\ FewData

\* Run is called
InitRun == mloop = "start" /\ Constructed /\ NoIter /\ FewData

\* config.go: format_mpack = "\x07msgpack", the length byte and the name
format_mpack == Frame("encoding", 7, "msgpack", 0)

protocol_version == "0.95.0"

\* hello{Protocol: protocol_name, Version: protocol_version, ...}
helloFrame == Frame("Hello", 0, protocol_version, 0)

\* Run: p.outputRaw(ctx, []byte(format_mpack)), then p.outputMsg(ctx, &h)
startFrame_hello(step) == helloFrame
startFrame(step) == IF step = "start" THEN format_mpack ELSE helloFrame

\* Run up to the call of mainMsgLoop: one step per frame written
RunStart ==
    /\ mloop \in {"start", "hello"}
    /\ wire' = outputMsg(wire, startFrame(mloop))
    /\ mloop' = IF mloop = "start" THEN "hello" ELSE "reading"
    /\ UNCHANGED <<lastAck, loopErr, lastErr, ackRcvd, dropRcvd, runCtx, idGen, outs,
                   inls, hctx, ost, pipe, handVars, inVars, decVars, ecVars, lastMsg,
                   otherVars>>

\* ---- main loop ----------------------------------------------------------
\* mainMsgLoop: after a frame is handled the loop condition ctx.Err() == nil
\* decides whether the next frame is decoded
loopNext_exit(ctx) == "exited"
loopNext(ctx) == IF ctx = "live" THEN "reading" ELSE "exited"
loopResult_keep(ctx, cur) == cur
loopResult(ctx, cur) == IF ctx = "live" THEN cur ELSE "Canceled"

Handled(err) ==
    /\ mloop' = loopNext(runCtx)
    /\ loopErr' = loopResult(runCtx, loopErr)
    /\ lastErr' = err

\* Plugin.getInput: a list or raw stream input is registered and its worker
\* started
getInput(kind, id) ==
    IF kind \in {"list", "raw"}
    THEN /\ inls' = inls \cup {id}
         /\ ist' = [NoInput EXCEPT !.id = id, !.wpc = "loop", !.kind = kind]
    ELSE UNCHANGED <<inls, ist>>

\* handleMessage(call{Run}) -> handleCall -> handleRun
handleRun(kind) ==
    /\ mloop = "reading"
    /\ hpc = "idle"
    /\ \E c \in CallIds, sid \in InIds :
        /\ lastMsg' = Msg("Call", c)
        /\ callID' = c
        /\ getInput(kind, sid)
    /\ hctx' = childCtx(runCtx)
    /\ inFlight' = TRUE
    /\ hpc' = "run"
    /\ Handled("nil")
    /\ UNCHANGED <<lastAck, runCtx, ackRcvd, dropRcvd, idGen, outs, wire, output, usr, ost,
                   pipe, consumed, rcvd, decVars, ecVars,
                   otherVars>>

\* outputStream.ack: a non-blocking send on the `sent` channel
ackAccepted_always(sent) == TRUE
ackAccepted(sent) == sent < SentCap

ackResult(sent) == IF ackAccepted(sent) THEN "nil" ELSE "received unexpected Ack"

\* handleMessage(ack) -> handleAck
handleAck(id) ==
    /\ mloop = "reading"
    /\ lastMsg' = Msg("Ack", id)
    /\ ackRcvd[id] < MaxAck
    /\ ackRcvd' = [ackRcvd EXCEPT ![id] = @ + 1]
    /\ IF id \in outs
       THEN /\ ost' = IF ackAccepted(ost.sent) THEN [ost EXCEPT !.sent = @ + 1] ELSE ost
            /\ lastAck' = [lastAck EXCEPT ![id] = ackResult(ost.sent)]
            /\ Handled(ackResult(ost.sent))
       ELSE /\ UNCHANGED <<ost, lastAck>>
            /\ Handled("no output stream")
    /\ UNCHANGED <<dropRcvd, runCtx, idGen, outs, inls, wire, hctx, pipe, handVars,
                   inVars, decVars, ecVars,
                   otherVars>>

\* the cause outputStream.onDrop gives to ExecCommand.cancel
onDropCause_nil == "nil"
onDropCause == "ErrDropStream"

\* delete(p.outs, id) in handleDrop
dropFromOuts_keep(reg, id) == reg
dropFromOuts(reg, id) == reg \ {id}

\* handleMessage(drop) -> handleDrop: the registry entry is removed and
\* out.drop() runs its onDrop callback if it has one; a raw stream then
\* closes its reader
handleDrop(id) ==
    /\ mloop = "reading"
    /\ lastMsg' = Msg("Drop", id)
    /\ dropRcvd[id] < MaxDrop
    /\ dropRcvd' = [dropRcvd EXCEPT ![id] = @ + 1]
    /\ outs' = dropFromOuts(outs, id)
    /\ IF id \in outs
       THEN /\ hctx' = IF ost.onDrop THEN cancelCause(hctx, onDropCause) ELSE hctx
            /\ IF ost.kind = "raw"
               THEN /\ mloop' = "dropping"
                    /\ UNCHANGED <<loopErr, lastErr>>
               ELSE Handled("nil")
       ELSE /\ hctx' = hctx
            /\ Handled("no output stream")
    /\ UNCHANGED <<lastAck, runCtx, ackRcvd, idGen, inls, wire, ost, pipe, handVars,
                   inVars, decVars, ecVars,
                   otherVars>>

\* onceError.Store in io.Pipe: only the first error is kept
storeOnce(cur, err) == IF cur = "nil" THEN err ELSE cur

\* io.Pipe: the pipe is done once either end has been closed
PipeDone(p) == p.rerr # "nil" \/ p.werr # "nil"

\* pipe.readCloseError
readCloseError(p) ==
    IF p.rerr = "nil" /\ p.werr # "nil" THEN p.werr ELSE "ErrClosedPipe"

\* pipe.writeCloseError
writeCloseError(p) ==
    IF p.werr = "nil" /\ p.rerr # "nil" THEN p.rerr ELSE "ErrClosedPipe"

\* the deferred calls of rawStreamOut.run: rc.rdr.Close(), rc.data.Close()
runDeferred(p) == [p EXCEPT !.rerr = storeOnce(@, "ErrClosedPipe"),
                            !.werr = storeOnce(@, "EOF")]

\* rawStreamOut.drop: rc.rdr.CloseWithError(ErrDropStream)
dropCloseReader ==
    /\ mloop = "dropping"
    /\ pipe' = [pipe EXCEPT !.rerr = storeOnce(@, "ErrDropStream")]
    /\ Handled("nil")
    /\ UNCHANGED <<lastAck, runCtx, ackRcvd, dropRcvd, idGen, outs, inls, wire, hctx, ost,
                   handVars, inVars, decVars, ecVars, lastMsg,
                   otherVars>>

\* the literal "Goodbye" ends the main loop with ErrGoodbye
Goodbye ==
    /\ mloop = "reading"
    /\ lastMsg' = Msg("Goodbye", 0)
    /\ mloop' = "exited"
    /\ loopErr' = "ErrGoodbye"
    /\ UNCHANGED <<lastAck, runCtx, lastErr, ackRcvd, dropRcvd, idGen, outs, inls, wire, hctx,
                   ost, pipe, handVars, inVars, decVars, ecVars,
                   otherVars>>

\* io.EOF from the decoder ends the main loop with nil
EndOfInput ==
    /\ mloop = "reading"
    /\ lastMsg' = Msg("EOF", 0)
    /\ mloop' = "exited"
    /\ loopErr' = "nil"
    /\ UNCHANGED <<lastAck, runCtx, lastErr, ackRcvd, dropRcvd, idGen, outs, inls, wire, hctx,
                   ost, pipe, handVars, inVars, decVars, ecVars,
                   otherVars>>

\* handleMsgDecode: Signal "Interrupt" is the decode error ErrInterrupt, which
\* ends the main loop
Interrupt ==
    /\ mloop = "reading"
    /\ lastMsg' = Msg("Interrupt", 0)
    /\ mloop' = "exited"
    /\ loopErr' = "ErrInterrupt"
    /\ UNCHANGED <<lastAck, runCtx, lastErr, ackRcvd, dropRcvd, idGen, outs, inls, wire, hctx,
                   ost, pipe, handVars, inVars, decVars, ecVars,
                   otherVars>>

\* handleMessage: case signal (any other Signal) and case hello return nil
Ignored ==
    /\ mloop = "reading"
    /\ \E tag \in {"Signal", "Hello"} : lastMsg' = Msg(tag, 0)
    /\ Handled("nil")
    /\ UNCHANGED <<lastAck, runCtx, ackRcvd, dropRcvd, idGen, outs, inls, wire, hctx, ost, pipe,
                   handVars, inVars, decVars, ecVars,
                   otherVars>>

\* what a frame can hold after the point where its decode failed: nothing, a
\* value that is no message, or the string "Goodbye"
Payloads == {"nil", "Goodbye"}
Leftovers == {"none"} \cup Payloads

\* mainMsgLoop: a decode error is logged and the loop continues; the next
\* DecodeInterface starts where the failed decode stopped
afterDecodeError(ctx, left) ==
    IF ctx # "live" THEN "exited"
    ELSE IF left = "none" THEN "reading" ELSE "resync"

\* handleMsgDecode, default case: the tag of {tag: payload} is unknown and the
\* decode fails after the key, with the payload unread
UnknownTag ==
    /\ mloop = "reading"
    /\ lastMsg' = Msg("unknown", 0)
    /\ \E p \in Payloads :
        /\ rest' = p
        /\ mloop' = afterDecodeError(runCtx, p)
    /\ loopErr' = loopResult(runCtx, loopErr)
    /\ lastErr' = "unknown message"
    /\ UNCHANGED <<lastAck, runCtx, ackRcvd, dropRcvd, idGen, outs, inls, wire, hctx, ost, pipe,
                   handVars, inVars, badCall, ecVars,
                   otherVars>>

\* decodeCall: the call id has been read and the decode of the Call fails (an
\* unknown Value tag, an unknown custom value id); mainMsgLoop logs the error
CallDecodeError ==
    /\ mloop = "reading"
    /\ badCall = 0
    /\ \E c \in BadCallIds, left \in Leftovers :
        /\ lastMsg' = Msg("Call", c)
        /\ badCall' = c
        /\ rest' = left
        /\ mloop' = afterDecodeError(runCtx, left)
    /\ loopErr' = loopResult(runCtx, loopErr)
    /\ lastErr' = "decoding Call"
    /\ UNCHANGED <<lastAck, runCtx, ackRcvd, dropRcvd, idGen, outs, inls, wire, hctx, ost, pipe,
                   handVars, inVars, ecVars,
                   otherVars>>

\* mainMsgLoop after a failed decode: DecodeInterface reads what the failed
\* decode left; the string "Goodbye" ends the loop, any other value is a
\* message handleMessage does not know
decodeRest ==
    /\ mloop = "resync"
    /\ rest' = "none"
    /\ IF rest = "Goodbye"
       THEN /\ lastMsg' = Msg("Goodbye", 0)
            /\ mloop' = "exited"
            /\ loopErr' = "ErrGoodbye"
            /\ lastErr' = lastErr
       ELSE /\ lastMsg' = Msg("value", 0)
            /\ Handled("unknown top-level message")
    /\ UNCHANGED <<lastAck, runCtx, ackRcvd, dropRcvd, idGen, outs, inls, wire, hctx, ost, pipe,
                   handVars, inVars, badCall, ecVars,
                   otherVars>>

\* what an EngineCallResponse carries: a Value, or PipelineData with the
\* header of a list stream the engine is about to send
Responses == IF engine.streams THEN {"value", "stream"} ELSE {"value"}

\* p.engc[id] in handleEngineCallResponse
engcFound_any(reg, id) == TRUE
engcFound(reg, id) == id \in reg

\* delete(p.engc, ecr.ID)
engcDelete_keep(reg, id) == reg
engcDelete(reg, id) == reg \ {id}

\* handleMessage(engineCallResponse) -> handleEngineCallResponse: the entry is
\* deleted and the response is sent on the channel of the engine call
handleEngineCallResponse(id) ==
    /\ mloop = "reading"
    /\ lastMsg' = Msg("EngineCallResponse", id)
    /\ engc' = engcDelete(engc, id)
    /\ IF engcFound(engc, id)
       THEN /\ \E r \in Responses : ch' = [ch EXCEPT ![id] = r]
            /\ Handled("nil")
       ELSE /\ ch' = ch
            /\ Handled("unregistered Engine Call Response")
    /\ UNCHANGED <<lastAck, runCtx, ackRcvd, dropRcvd, idGen, outs, inls, wire, hctx, ost, pipe,
                   handVars, inVars, decVars, cfg,
                   otherVars>>

\* the embedder cancels the context it gave to Run; the handler's context is
\* a child of it
CancelRun ==
    /\ runCtx = "live"
    /\ mloop # "returned"
    /\ runCtx' = "Canceled"
    /\ hctx' = IF hpc # "idle" THEN cancelCause(hctx, "Canceled") ELSE hctx
    /\ UNCHANGED <<lastAck, dispVars, idGen, outs, inls, wire, ost, pipe, handVars, inVars,
                   decVars, ecVars, lastMsg,
                   otherVars>>

\* commandsInFlight.stopAll(cause), first half of CancelAndWait
stopAll_nocancel ==
    /\ mloop = "exited"
    /\ mloop' = "waiting"
    /\ UNCHANGED <<lastAck, loopErr, runCtx, lastErr, ackRcvd, dropRcvd, idGen, outs, inls,
                   wire, hctx, ost, pipe, handVars, inVars, decVars, ecVars, lastMsg,
                   otherVars>>
stopAll ==
    /\ mloop = "exited"
    /\ mloop' = "waiting"
    /\ hctx' = IF inFlight THEN cancelCause(hctx, loopErr) ELSE hctx
    /\ UNCHANGED <<lastAck, loopErr, runCtx, lastErr, ackRcvd, dropRcvd, idGen, outs, inls,
                   wire, ost, pipe, handVars, inVars, decVars, ecVars, lastMsg,
                   otherVars>>

\* cf.wg.Wait() returns once no handler is in flight, and Run returns
RunReturn ==
    /\ mloop = "waiting"
    /\ ~inFlight
    /\ mloop' = "returned"
    /\ UNCHANGED <<lastAck, loopErr, runCtx, lastErr, ackRcvd, dropRcvd, idGen, outs, inls,
                   wire, hctx, ost, pipe, handVars, inVars, decVars, ecVars, lastMsg,
                   otherVars>>

\* ---- the response slot --------------------------------------------------
\* ec.output.CompareAndSwap(nil, v) succeeds only on an unset slot
casOutput_always(cur) == TRUE
casOutput(cur) == cur = "nil"

UserStep == hpc = "run" /\ usr.rets < MaxRet

Returned(method, res) ==
    usr' = [usr EXCEPT !.rets = @ + 1, !.lastRet = method, !.retRes = res]

\* ExecCommand.ReturnValue
ReturnValue ==
    /\ UserStep
    /\ IF casOutput(output)
        THEN /\ output' = "value"
             /\ wire' = outputMsg(wire, CallResponse(callID, "Value", 0))
             /\ Returned("Value", "nil")
        ELSE /\ Returned("Value", "response has been already sent")
             /\ UNCHANGED <<output, wire>>
    /\ UNCHANGED <<lastAck, dispVars, runCtx, idGen, outs, inls, callID, hpc, hctx,
                   inFlight, ost, pipe, inVars, decVars, ecVars, lastMsg,
                   otherVars>>

\* ExecCommand.startResponseStream: registerOutputStream (registry entry and
\* the stream's run goroutine), then the CallResponse with the stream header
startResponseStream(kind, id) ==
    /\ outs' = outs \cup {id}
    /\ ost' = [NoStream EXCEPT !.kind = kind, !.id = id, !.onDrop = TRUE,
                                !.pc = IF kind = "list" THEN "recv" ELSE "read"]
    /\ wire' = outputMsg(wire, CallResponse(callID,
                   IF kind = "list" THEN "ListStream" ELSE "ByteStream", id))

\* ExecCommand.ReturnListStream: a new stream object takes an id first; a slot
\* that already holds a list stream gives that stream's channel again
ReturnListStream ==
    /\ UserStep
    /\ idGen' = idGen + 1
    /\ IF casOutput(output)
       THEN /\ output' = "list"
            /\ startResponseStream("list", idGen + 1)
            /\ Returned("List", "nil")
       ELSE /\ Returned("List", IF output = "list" THEN "nil"
                                ELSE "response has been already sent")
            /\ UNCHANGED <<output, outs, ost, wire>>
    /\ UNCHANGED <<lastAck, dispVars, runCtx, inls, callID, hpc, hctx, inFlight, pipe,
                   inVars, decVars, ecVars, lastMsg,
                   otherVars>>

\* ExecCommand.ReturnRawStream: as ReturnListStream, for a raw stream
ReturnRawStream ==
    /\ UserStep
    /\ idGen' = idGen + 1
    /\ IF casOutput(output)
       THEN /\ output' = "raw"
            /\ startResponseStream("raw", idGen + 1)
            /\ Returned("Raw", "nil")
       ELSE /\ Returned("Raw", IF output = "raw" THEN "nil"
                               ELSE "response has been already sent")
            /\ UNCHANGED <<output, outs, ost, wire>>
    /\ UNCHANGED <<lastAck, dispVars, runCtx, inls, callID, hpc, hctx, inFlight, pipe,
                   inVars, decVars, ecVars, lastMsg,
                   otherVars>>

\* ReturnListStream and ReturnRawStream on an empty slot in the two steps of
\* startResponseStream. First ec.p.registerOutputStream(ctx, out): the stream
\* is in Plugin.outs and its run goroutine is started
registerResponseStream(kind) ==
    /\ UserStep
    /\ casOutput(output)
    /\ idGen' = idGen + 1
    /\ output' = kind
    /\ outs' = outs \cup {idGen + 1}
    /\ ost' = [NoStream EXCEPT !.kind = kind, !.id = idGen + 1, !.onDrop = TRUE,
                                !.pc = IF kind = "list" THEN "recv" ELSE "read"]
    /\ hpc' = "hdr"
    /\ UNCHANGED <<lastAck, dispVars, runCtx, inls, wire, callID, hctx, inFlight, usr,
                   pipe, inVars, decVars, ecVars, lastMsg, otherVars>>

\* then the CallResponse with out.pipelineDataHdr(), and the method returns
sendStreamHeader ==
    /\ hpc = "hdr"
    /\ wire' = outputMsg(wire, CallResponse(callID,
                   IF ost.kind = "list" THEN "ListStream" ELSE "ByteStream", ost.id))
    /\ Returned(IF ost.kind = "list" THEN "List" ELSE "Raw", "nil")
    /\ hpc' = "run"
    /\ UNCHANGED <<lastAck, dispVars, runCtx, idGen, outs, inls, callID, output, hctx,
                   inFlight, ost, pipe, inVars, decVars, ecVars, lastMsg, otherVars>>

\* ---- list output stream -------------------------------------------------
\* the handler sends a value on the channel ReturnListStream gave it; the run
\* loop of the stream receives it (case v, ok := <-rc.data)
ListSend ==
    /\ hpc = "run"
    /\ output = "list"
    /\ ~ost.chClosed
    /\ usr.sends < MaxSend
    /\ ost.pc = "recv"
    /\ ost' = [ost EXCEPT !.pc = "sending", !.val = usr.sends + 1]
    /\ usr' = [usr EXCEPT !.sends = @ + 1]
    /\ UNCHANGED <<lastAck, dispVars, runCtx, idGen, outs, inls, wire, callID, hpc,
                   output, hctx, inFlight, pipe, inVars, decVars, ecVars, lastMsg,
                   otherVars>>

\* the handler closes its list channel
ListClose ==
    /\ hpc = "run"
    /\ output = "list"
    /\ ~ost.chClosed
    /\ ost' = [ost EXCEPT !.chClosed = TRUE]
    /\ UNCHANGED <<lastAck, dispVars, runCtx, idGen, outs, inls, wire, hctx, pipe,
                   handVars, inVars, decVars, ecVars, lastMsg,
                   otherVars>>

\* listStreamOut.run: rc.sender(ctx, &data{...}) for the value received
ListRunSend ==
    /\ ost.kind = "list"
    /\ ost.pc = "sending"
    /\ wire' = outputMsg(wire, DataFrame(ost.id, "List", ost.val))
    /\ ost' = [ost EXCEPT !.pc = "waitack"]
    /\ lastAck' = dataWritten(lastAck, ost.id)
    /\ UNCHANGED <<dispVars, runCtx, idGen, outs, inls, hctx, pipe, handVars,
                   inVars, decVars, ecVars, lastMsg,
                   otherVars>>

\* listStreamOut.run: the channel is closed, run returns nil (close(rc.done))
ListRunClosed ==
    /\ ost.kind = "list"
    /\ ost.pc = "recv"
    /\ ost.chClosed
    /\ ost' = [ost EXCEPT !.pc = "done", !.done = TRUE, !.err = "nil"]
    /\ UNCHANGED <<lastAck, dispVars, runCtx, idGen, outs, inls, wire, hctx, pipe,
                   handVars, inVars, decVars, ecVars, lastMsg,
                   otherVars>>

\* outputStream.run: case <-rc.sent, the latest Data has been Ack-ed
RunAcked ==
    /\ ost.pc = "waitack"
    /\ ost.sent > 0
    /\ IF ost.eof
       THEN /\ ost' = [ost EXCEPT !.sent = @ - 1, !.pc = "done", !.done = TRUE,
                                  !.err = "nil"]
            /\ pipe' = runDeferred(pipe)
       ELSE /\ ost' = [ost EXCEPT !.sent = @ - 1, !.sp = 0, !.buf = <<>>,
                          !.pc = IF ost.kind = "list" THEN "recv" ELSE "read"]
            /\ pipe' = pipe
    /\ UNCHANGED <<lastAck, dispVars, runCtx, idGen, outs, inls, wire, hctx, handVars,
                   inVars, decVars, ecVars, lastMsg,
                   otherVars>>

\* outputStream.run: case <-ctx.Done() in either select; the deferred calls
\* of a raw stream close both ends of its pipe
RunCtxDone ==
    /\ ost.pc \in {"recv", "waitack"}
    /\ hctx # "none"
    /\ ost' = [ost EXCEPT !.pc = "done", !.done = TRUE, !.err = "ctx"]
    /\ pipe' = IF ost.kind = "raw" THEN runDeferred(pipe) ELSE pipe
    /\ UNCHANGED <<lastAck, dispVars, runCtx, idGen, outs, inls, wire, hctx, handVars,
                   inVars, decVars, ecVars, lastMsg,
                   otherVars>>

\* ---- raw output stream --------------------------------------------------
\* the bytes of the handler's w-th Write of n bytes: each byte is named by its
\* place in what the handler writes
chunk(w, n) == [i \in 1..n |-> (w - 1) * MaxChunk + i]

\* the handler calls Write on the writer ReturnRawStream gave it: on a closed
\* pipe it fails at once, otherwise it blocks until the reader took the bytes
RawWrite ==
    /\ hpc = "run"
    /\ output = "raw"
    /\ usr.writes < MaxWrite
    /\ \E n \in WriteLens :
        IF PipeDone(pipe)
        THEN /\ usr' = [usr EXCEPT !.writes = @ + 1, !.wres = writeCloseError(pipe)]
             /\ UNCHANGED <<pipe, hpc>>
        ELSE /\ usr' = [usr EXCEPT !.writes = @ + 1, !.wres = "-",
                               !.wrote = @ \o chunk(usr.writes + 1, n)]
             /\ pipe' = [pipe EXCEPT !.pend = chunk(usr.writes + 1, n)]
             /\ hpc' = "writing"
    /\ UNCHANGED <<lastAck, dispVars, runCtx, idGen, outs, inls, wire, callID, output,
                   hctx, inFlight, ost, inVars, decVars, ecVars, lastMsg,
                   otherVars>>

\* a blocked Write returns the close error when the pipe is closed under it
RawWriteAbort ==
    /\ hpc = "writing"
    /\ PipeDone(pipe)
    /\ usr' = [usr EXCEPT !.wres = writeCloseError(pipe)]
    /\ pipe' = [pipe EXCEPT !.pend = <<>>]
    /\ hpc' = "run"
    /\ UNCHANGED <<lastAck, dispVars, runCtx, idGen, outs, inls, wire, callID, output,
                   hctx, inFlight, ost, inVars, decVars, ecVars, lastMsg,
                   otherVars>>

\* the handler closes the writer
RawClose ==
    /\ hpc = "run"
    /\ output = "raw"
    /\ ~usr.wclosed
    /\ pipe' = [pipe EXCEPT !.werr = storeOnce(@, "EOF")]
    /\ usr' = [usr EXCEPT !.wclosed = TRUE]
    /\ UNCHANGED <<lastAck, dispVars, runCtx, idGen, outs, inls, wire, hctx, ost,
                   callID, hpc, output, inFlight, inVars, decVars, ecVars, lastMsg,
                   otherVars>>

\* PipeReader.Read copies what fits of the pending Write into the room given
pipeRead(pending, room) == Min(pending, room)

\* rawStreamOut.read: the loop ends without an error when sp == len(buf)
readFull_first(sp) == TRUE
readFull(sp) == sp = BufSize

\* rawStreamOut.read on an open pipe: one rc.rdr.Read takes what fits of the
\* pending Write; a full buffer is sent as a Data frame by run
RawRead ==
    /\ ost.pc = "read"
    /\ ~PipeDone(pipe)
    /\ pipe.pend # <<>>
    /\ LET k == pipeRead(Len(pipe.pend), BufSize - ost.sp)
           buf == ost.buf \o SubSeq(pipe.pend, 1, k)
           full == readFull(ost.sp + k)
       IN /\ pipe' = [pipe EXCEPT !.pend = SubSeq(@, k + 1, Len(@))]
          /\ IF Len(pipe.pend) = k /\ cfg.pc # "copying"
             THEN /\ hpc' = "run"
                  /\ usr' = [usr EXCEPT !.wres = "nil"]
             ELSE UNCHANGED <<hpc, usr>>
          /\ cfg' = IF Len(pipe.pend) = k /\ cfg.pc = "copying"
                    THEN [cfg EXCEPT !.pc = "copy"] ELSE cfg
          /\ IF full
             THEN /\ wire' = outputMsg(wire, DataFrame(ost.id, "Raw", buf))
                  /\ ost' = [ost EXCEPT !.sp = @ + k, !.buf = buf,
                                         !.pc = "waitack"]
                  /\ lastAck' = dataWritten(lastAck, ost.id)
             ELSE /\ wire' = wire
                  /\ ost' = [ost EXCEPT !.sp = @ + k, !.buf = buf]
                  /\ lastAck' = lastAck
    /\ UNCHANGED <<dispVars, runCtx, idGen, outs, inls, callID, output, hctx,
                   inFlight, inVars, decVars, engc, ch, lastMsg,
                   otherVars>>

\* rawStreamOut.read on a closed pipe returns what it has with the close
\* error: on io.EOF run sends the rest and ends, on any other error it returns
RawReadClosed ==
    /\ ost.pc = "read"
    /\ PipeDone(pipe)
    /\ IF readCloseError(pipe) = "EOF" /\ ost.sp > 0
       THEN /\ wire' = outputMsg(wire, DataFrame(ost.id, "Raw", ost.buf))
            /\ ost' = [ost EXCEPT !.pc = "waitack", !.eof = TRUE]
            /\ lastAck' = dataWritten(lastAck, ost.id)
            /\ pipe' = pipe
       ELSE /\ wire' = wire
            /\ ost' = [ost EXCEPT !.pc = "done", !.done = TRUE,
                         !.err = IF readCloseError(pipe) = "EOF" THEN "nil"
                                 ELSE "reading data"]
            /\ lastAck' = lastAck
            /\ pipe' = runDeferred(pipe)
    /\ UNCHANGED <<dispVars, runCtx, idGen, outs, inls, hctx, handVars, inVars,
                   decVars, ecVars, lastMsg,
                   otherVars>>

\* ---- the handler goroutine of handleRun ---------------------------------
\* cmd.OnRun returns nil or an error
OnRunReturn ==
    /\ hpc = "run"
    /\ \E e \in {"nil", "err"} :
        /\ usr' = [usr EXCEPT !.err = e]
        /\ hpc' = IF e = "nil" THEN "close" ELSE "retErr"
    /\ UNCHANGED <<lastAck, dispVars, runCtx, idGen, outs, inls, wire, callID, output,
                   hctx, inFlight, ost, pipe, inVars, decVars, ecVars, lastMsg,
                   otherVars>>

\* ExecCommand.returnError: the frame that carries the handler's error
errorFrame_call(slot, call, sid) == CallResponse(call, "Error", 0)

errorFrame(slot, call, sid) ==
    CASE slot = "raw" -> DataFrame(sid, "RawErr", 0)
      [] slot = "list" -> DataFrame(sid, "ListErr", 0)
      [] OTHER -> CallResponse(call, "Error", 0)

returnError ==
    /\ hpc = "retErr"
    /\ wire' = outputMsg(wire, errorFrame(output, callID, ost.id))
    /\ lastAck' = IF output \in {"list", "raw"} THEN dataWritten(lastAck, ost.id)
                  ELSE lastAck
    /\ hpc' = "close"
    /\ UNCHANGED <<dispVars, runCtx, idGen, outs, inls, callID, output, hctx,
                   inFlight, usr, ost, pipe, inVars, decVars, ecVars, lastMsg,
                   otherVars>>

\* outputStream.close: <-rc.done before the End frame is sent
closeReady_nowait(st) == TRUE
closeReady(st) == st.done

\* ExecCommand.closeOutputStream
closeOutputStream ==
    /\ hpc = "close"
    /\ IF output \in {"list", "raw"}
       THEN /\ closeReady(ost)
            /\ wire' = outputMsg(wire, EndFrame(ost.id))
       ELSE wire' = wire
    /\ hpc' = "retNothing"
    /\ UNCHANGED <<lastAck, dispVars, runCtx, idGen, outs, inls, callID, output, hctx,
                   inFlight, usr, ost, pipe, inVars, decVars, ecVars, lastMsg,
                   otherVars>>

\* ExecCommand.returnNothing
returnNothing ==
    /\ hpc = "retNothing"
    /\ wire' = IF output = "nil"
               THEN outputMsg(wire, CallResponse(callID, "Empty", 0))
               ELSE wire
    /\ hpc' = "remove"
    /\ UNCHANGED <<lastAck, dispVars, runCtx, idGen, outs, inls, callID, output, hctx,
                   inFlight, usr, ost, pipe, inVars, decVars, ecVars, lastMsg,
                   otherVars>>

\* commandsInFlight.removeInFlight (deferred in the handler goroutine)
removeInFlight ==
    /\ hpc = "remove"
    /\ hctx' = cancelCause(hctx, "nil")
    /\ inFlight' = FALSE
    /\ hpc' = "done"
    /\ UNCHANGED <<lastAck, dispVars, runCtx, idGen, outs, inls, wire, callID, output,
                   usr, ost, pipe, inVars, decVars, ecVars, lastMsg,
                   otherVars>>

\* ---- engine calls -------------------------------------------------------
EngineCallFrame_noinput(id, call, input) ==
    [t |-> "EngineCall", id |-> id, k |-> "-", v |-> call, input |-> 0]

\* engineCall{Context: callID, ID: ecID, Call: query}; input is the id of the
\* stream the query passes as its input (0 if it passes none)
EngineCallFrame(id, call, input) ==
    [t |-> "EngineCall", id |-> id, k |-> "-", v |-> call, input |-> input]

\* Plugin.engineCall: the response channel is registered under a new id and
\* the EngineCall frame is sent
engineCall(id, input) ==
    /\ engc' = engc \cup {id}
    /\ ch' = [ch EXCEPT ![id] = "empty"]
    /\ wire' = outputMsg(wire, EngineCallFrame(id, callID, input))

\* ExecCommand.engineCallValueReturn, up to its select
EngineCallValue ==
    /\ hpc = "run"
    /\ usr.ec = 0
    /\ idGen' = idGen + 1
    /\ engineCall(idGen + 1, 0)
    /\ usr' = [usr EXCEPT !.ec = idGen + 1]
    /\ hpc' = "ecwait"
    /\ UNCHANGED <<lastAck, dispVars, runCtx, outs, inls, callID, output, hctx, inFlight,
                   ost, pipe, inVars, decVars, cfg, lastMsg,
                   otherVars>>

\* ExecCommand.EvalClosure with InputListStream(arg): the option takes the id
\* of the stream, engineCall the id of the call, and cfg.run is started
EvalClosure ==
    /\ hpc = "run"
    /\ usr.ec = 0
    /\ idGen' = idGen + 2
    /\ cfg' = [NoCfg EXCEPT !.pc = "register", !.id = idGen + 1]
    /\ engineCall(idGen + 2, idGen + 1)
    /\ usr' = [usr EXCEPT !.ec = idGen + 2]
    /\ hpc' = "ecwait"
    /\ UNCHANGED <<lastAck, dispVars, runCtx, outs, inls, callID, output, hctx, inFlight,
                   ost, pipe, inVars, decVars, lastMsg,
                   otherVars>>

\* a list stream header taken from the channel: EvalClosure (the call with
\* evalArguments) gives it to getInput, engineCallValueReturn reports an
\* unexpected return value
returnedInput(args) == IF args.pc # "none" THEN "list" ELSE "empty"

\* the select of engineCallValueReturn and EvalClosure: the response or the
\* end of the handler's context, whichever is ready
EngineCallReturn ==
    /\ hpc = "ecwait"
    /\ \/ /\ ch[usr.ec] = "value"
          /\ ch' = [ch EXCEPT ![usr.ec] = "taken"]
          /\ UNCHANGED <<inls, ist>>
       \/ /\ ch[usr.ec] = "stream"
          /\ ch' = [ch EXCEPT ![usr.ec] = "taken"]
          /\ \E sid \in InIds : getInput(returnedInput(cfg), sid)
       \/ hctx # "none" /\ UNCHANGED <<ch, inls, ist>>
    /\ hpc' = "run"
    /\ UNCHANGED <<lastAck, dispVars, runCtx, idGen, outs, wire, callID, output, hctx,
                   inFlight, usr, ost, pipe, consumed, rcvd, decVars, engc, cfg, lastMsg,
                   otherVars>>

\* a second goroutine (another handler, or a goroutine of the handler) makes
\* an engine call of its own while the call is in flight
CoEngineCall ==
    /\ hpc \in {"run", "ecwait"}
    /\ co.pc = "none"
    /\ idGen' = idGen + 1
    /\ engineCall(idGen + 1, 0)
    /\ co' = [pc |-> "ecwait", ec |-> idGen + 1]
    /\ UNCHANGED <<lastAck, dispVars, runCtx, outs, inls, hctx, ost, pipe, handVars,
                   inVars, decVars, cfg, lastMsg, issued, lockVars, cvVars, rngVars, engine>>

\* its select: the response on its channel or the end of the context
CoReturn ==
    /\ co.pc = "ecwait"
    /\ \/ ch[co.ec] = "value" /\ ch' = [ch EXCEPT ![co.ec] = "taken"]
       \/ hctx # "none" /\ ch' = ch
    /\ co' = [co EXCEPT !.pc = "done"]
    /\ UNCHANGED <<lastAck, dispVars, runCtx, idGen, outs, inls, wire, hctx, ost, pipe,
                   handVars, inVars, decVars, engc, cfg, lastMsg, issued, lockVars,
                   cvVars, rngVars, engine>>

\* InputListStream, ec.run: ec.p.registerOutputStream(ctx, out); the stream
\* has no onDrop callback
cfgRegister ==
    /\ cfg.pc = "register"
    /\ outs' = outs \cup {cfg.id}
    /\ ost' = [NoStream EXCEPT !.kind = "list", !.id = cfg.id, !.pc = "recv"]
    /\ cfg' = [cfg EXCEPT !.pc = "range"]
    /\ UNCHANGED <<lastAck, dispVars, runCtx, idGen, inls, wire, hctx, pipe, handVars,
                   inVars, decVars, engc, ch, lastMsg,
                   otherVars>>

\* for v := range arg: the producer hands over its next value
cfgTake ==
    /\ cfg.pc = "range"
    /\ ~cfg.argClosed
    /\ cfg.taken < MaxSend
    /\ cfg' = [cfg EXCEPT !.pc = "offer", !.val = cfg.taken + 1, !.taken = @ + 1]
    /\ UNCHANGED <<lastAck, dispVars, runCtx, idGen, outs, inls, wire, hctx, ost, pipe,
                   handVars, inVars, decVars, engc, ch, lastMsg,
                   otherVars>>

\* the producer closes arg
ArgClose ==
    /\ cfg.pc # "none"
    /\ ~cfg.argClosed
    /\ cfg' = [cfg EXCEPT !.argClosed = TRUE]
    /\ UNCHANGED <<lastAck, dispVars, runCtx, idGen, outs, inls, wire, hctx, ost, pipe,
                   handVars, inVars, decVars, engc, ch, lastMsg,
                   otherVars>>

\* for v := range arg ends on the closed channel
cfgArgClosed ==
    /\ cfg.pc = "range"
    /\ cfg.argClosed
    /\ cfg' = [cfg EXCEPT !.pc = "defer"]
    /\ UNCHANGED <<lastAck, dispVars, runCtx, idGen, outs, inls, wire, hctx, ost, pipe,
                   handVars, inVars, decVars, engc, ch, lastMsg,
                   otherVars>>

\* case out.data <- v: the run loop of the stream receives the value
cfgForward ==
    /\ cfg.pc = "offer"
    /\ ost.pc = "recv"
    /\ ost' = [ost EXCEPT !.pc = "sending", !.val = cfg.val]
    /\ cfg' = [cfg EXCEPT !.pc = "range"]
    /\ UNCHANGED <<lastAck, dispVars, runCtx, idGen, outs, inls, wire, hctx, pipe,
                   handVars, inVars, decVars, engc, ch, lastMsg,
                   otherVars>>

\* case <-ctx.Done(): ec.run returns
cfgCtxDone ==
    /\ cfg.pc = "offer"
    /\ hctx # "none"
    /\ cfg' = [cfg EXCEPT !.pc = "defer"]
    /\ UNCHANGED <<lastAck, dispVars, runCtx, idGen, outs, inls, wire, hctx, ost, pipe,
                   handVars, inVars, decVars, engc, ch, lastMsg,
                   otherVars>>

\* deferred in ec.run: close(out.data)
cfgCloseData ==
    /\ cfg.pc = "defer"
    /\ ost' = [ost EXCEPT !.chClosed = TRUE]
    /\ cfg' = [cfg EXCEPT !.pc = "close"]
    /\ UNCHANGED <<lastAck, dispVars, runCtx, idGen, outs, inls, wire, hctx, pipe,
                   handVars, inVars, decVars, engc, ch, lastMsg,
                   otherVars>>

\* deferred in ec.run: out.close(ctx) waits for the run loop and sends End
cfgClose ==
    /\ cfg.pc = "close"
    /\ closeReady(ost)
    /\ wire' = outputMsg(wire, EndFrame(ost.id))
    /\ cfg' = [cfg EXCEPT !.pc = "done"]
    /\ UNCHANGED <<lastAck, dispVars, runCtx, idGen, outs, inls, hctx, ost, pipe,
                   handVars, inVars, decVars, engc, ch, lastMsg,
                   otherVars>>

\* ExecCommand.EvalClosure with InputRawStream(arg): as with
\* InputListStream, for a raw stream
EvalClosureRaw ==
    /\ hpc = "run"
    /\ usr.ec = 0
    /\ idGen' = idGen + 2
    /\ cfg' = [NoCfg EXCEPT !.pc = "registerRaw", !.id = idGen + 1]
    /\ engineCall(idGen + 2, idGen + 1)
    /\ usr' = [usr EXCEPT !.ec = idGen + 2]
    /\ hpc' = "ecwait"
    /\ UNCHANGED <<lastAck, dispVars, runCtx, outs, inls, callID, output, hctx, inFlight,
                   ost, pipe, inVars, decVars, lastMsg,
                   otherVars>>

\* InputRawStream, ec.run: ec.p.registerOutputStream(ctx, out); the stream has
\* no onDrop callback
cfgRawRegister ==
    /\ cfg.pc = "registerRaw"
    /\ outs' = outs \cup {cfg.id}
    /\ ost' = [NoStream EXCEPT !.kind = "raw", !.id = cfg.id, !.pc = "read"]
    /\ cfg' = [cfg EXCEPT !.pc = "copy"]
    /\ UNCHANGED <<lastAck, dispVars, runCtx, idGen, inls, wire, hctx, pipe, handVars,
                   inVars, decVars, engc, ch, lastMsg,
                   otherVars>>

\* io.Copy(out.data, arg): arg.Read gives the next bytes and out.data.Write
\* is called with them; usr.wrote keeps the bytes read from arg
cfgCopy ==
    /\ cfg.pc = "copy"
    /\ ~cfg.argClosed
    /\ cfg.taken < MaxWrite
    /\ \E n \in WriteLens :
        /\ usr' = [usr EXCEPT !.wrote = @ \o chunk(cfg.taken + 1, n)]
        /\ IF PipeDone(pipe)
           THEN /\ cfg' = [cfg EXCEPT !.pc = "close", !.taken = @ + 1]
                /\ pipe' = pipe
           ELSE /\ cfg' = [cfg EXCEPT !.pc = "copying", !.taken = @ + 1]
                /\ pipe' = [pipe EXCEPT !.pend = chunk(cfg.taken + 1, n)]
    /\ UNCHANGED <<lastAck, dispVars, runCtx, idGen, outs, inls, wire, hctx, ost,
                   callID, hpc, output, inFlight, inVars, decVars, engc, ch, lastMsg,
                   otherVars>>

\* the Write of io.Copy fails on the pipe closed under it: io.Copy returns
\* the error and ec.run goes to its deferred out.close(ctx)
cfgCopyAbort ==
    /\ cfg.pc = "copying"
    /\ PipeDone(pipe)
    /\ pipe' = [pipe EXCEPT !.pend = <<>>]
    /\ cfg' = [cfg EXCEPT !.pc = "close"]
    /\ UNCHANGED <<lastAck, dispVars, runCtx, idGen, outs, inls, wire, hctx, ost,
                   handVars, inVars, decVars, engc, ch, lastMsg,
                   otherVars>>

\* arg.Read returns io.EOF: io.Copy returns nil and ec.run goes to its
\* deferred out.close(ctx); out.data is not closed
cfgCopyEOF ==
    /\ cfg.pc = "copy"
    /\ cfg.argClosed
    /\ cfg' = [cfg EXCEPT !.pc = "close"]
    /\ UNCHANGED <<lastAck, dispVars, runCtx, idGen, outs, inls, wire, hctx, ost, pipe,
                   handVars, inVars, decVars, engc, ch, lastMsg,
                   otherVars>>

\* ---- list input stream --------------------------------------------------
\* listStreamIn.received: lsi.buf <- in
received_lifo(buf, v) == <<v>> \o buf
received_drop(buf, v) == IF Len(buf) > 0 THEN buf ELSE Append(buf, v)
received(buf, v) == Append(buf, v)

\* a send on lsi.buf (make(chan Value, 10)) goes through at once while the
\* channel holds fewer items than its capacity; otherwise it waits
chanReady(buf) == Len(buf) < BufCap

\* handleMessage(data) -> handleData
handleData(id) ==
    /\ mloop = "reading"
    /\ lastMsg' = Msg("Data", id)
    /\ Len(rcvd) < engine.maxData
    /\ LET v == Len(rcvd) + 1 IN
        IF id \in inls
        THEN IF chanReady(ist.buf)
             THEN /\ ist' = [ist EXCEPT !.buf = received(@, v)]
                  /\ rcvd' = Append(rcvd, v)
                  /\ Handled("nil")
             ELSE /\ mloop' = "sending"
                  /\ UNCHANGED <<ist, rcvd, loopErr, lastErr>>
        ELSE /\ UNCHANGED <<ist, rcvd>>
             /\ Handled("unknown input stream")
    /\ UNCHANGED <<lastAck, runCtx, ackRcvd, dropRcvd, idGen, outs, inls, wire, hctx, ost, pipe,
                   handVars, consumed, decVars, ecVars,
                   otherVars>>

\* the send lsi.buf <- in that found the channel full goes through when the
\* worker has taken an item, and handleData returns
receivedSent ==
    /\ mloop = "sending"
    /\ chanReady(ist.buf)
    /\ ist' = [ist EXCEPT !.buf = received(@, Len(rcvd) + 1)]
    /\ rcvd' = Append(rcvd, Len(rcvd) + 1)
    /\ Handled("nil")
    /\ UNCHANGED <<lastAck, runCtx, ackRcvd, dropRcvd, idGen, outs, inls, wire, hctx, ost, pipe,
                   handVars, consumed, decVars, ecVars, lastMsg,
                   otherVars>>

\* listStreamIn.endOfData: close(lsi.buf); what the channel holds stays
endOfData_discard(st) == [st EXCEPT !.bufClosed = TRUE, !.buf = <<>>]
endOfData(st) == [st EXCEPT !.bufClosed = TRUE]

\* delete(p.inls, id) in handleEnd
inlsDelete_keep(reg, id) == reg
inlsDelete(reg, id) == reg \ {id}

\* handleMessage(end) -> handleEnd: the entry is deleted, endOfData closes
\* lsi.buf, and Drop is sent
handleEnd(id) ==
    /\ mloop = "reading"
    /\ lastMsg' = Msg("End", id)
    /\ inls' = inlsDelete(inls, id)
    /\ IF id \in inls
       THEN /\ ist' = endOfData(ist)
            /\ wire' = outputMsg(wire, DropFrame(id))
            /\ Handled("nil")
       ELSE /\ UNCHANGED <<ist, wire>>
            /\ Handled("unknown input stream")
    /\ UNCHANGED <<lastAck, runCtx, ackRcvd, dropRcvd, idGen, outs, hctx, ost, pipe, handVars,
                   consumed, rcvd, decVars, ecVars,
                   otherVars>>

\* the goroutine of listStreamIn.Run moves an item from lsi.buf to the
\* consumer (lsi.data <- in) and then calls onAck
workerNext_ackFirst(pc) ==
    CASE pc = "loop" -> "ack" [] pc = "ack" -> "offer" [] OTHER -> "loop"
workerNext(pc) ==
    CASE pc = "loop" -> "offer" [] pc = "offer" -> "ack" [] OTHER -> "loop"

\* case in, ok := <-lsi.buf with ok
workerTake ==
    /\ ist.wpc = "loop"
    /\ Len(ist.buf) > 0
    /\ ist' = [ist EXCEPT !.buf = Tail(@), !.item = Head(ist.buf),
                          !.wpc = workerNext("loop")]
    /\ UNCHANGED <<lastAck, dispVars, runCtx, idGen, outs, inls, wire, hctx, ost, pipe,
                   handVars, consumed, rcvd, decVars, ecVars, lastMsg,
                   otherVars>>

\* case in, ok := <-lsi.buf with !ok: the worker returns, close(lsi.data)
workerEnd ==
    /\ ist.wpc = "loop"
    /\ Len(ist.buf) = 0
    /\ ist.bufClosed
    /\ ist' = [ist EXCEPT !.wpc = "done", !.closed = TRUE]
    /\ UNCHANGED <<lastAck, dispVars, runCtx, idGen, outs, inls, wire, hctx, ost, pipe,
                   handVars, consumed, rcvd, decVars, ecVars, lastMsg,
                   otherVars>>

\* case <-ctx.Done() in either select: the worker returns, close(lsi.data)
workerCtxDone ==
    /\ ist.wpc \in {"loop", "offer"}
    /\ hctx # "none"
    /\ ist' = [ist EXCEPT !.wpc = "done", !.closed = TRUE]
    /\ UNCHANGED <<lastAck, dispVars, runCtx, idGen, outs, inls, wire, hctx, ost, pipe,
                   handVars, consumed, rcvd, decVars, ecVars, lastMsg,
                   otherVars>>

\* case lsi.data <- in: the handler receives the item from ExecCommand.Input
InputRead ==
    /\ hpc = "run"
    /\ ist.wpc = "offer"
    /\ consumed' = Append(consumed, ist.item)
    /\ ist' = [ist EXCEPT !.wpc = workerNext("offer")]
    /\ UNCHANGED <<lastAck, dispVars, runCtx, idGen, outs, inls, wire, hctx, ost, pipe,
                   handVars, rcvd, decVars, ecVars, lastMsg,
                   otherVars>>

\* lsi.onAck(ctx, lsi.id): the callback set in getInput sends Ack
workerAck ==
    /\ ist.wpc = "ack"
    /\ wire' = outputMsg(wire, AckFrame(ist.id))
    /\ ist' = [ist EXCEPT !.wpc = workerNext("ack")]
    /\ UNCHANGED <<lastAck, dispVars, runCtx, idGen, outs, inls, hctx, ost, pipe,
                   handVars, consumed, rcvd, decVars, ecVars, lastMsg,
                   otherVars>>

\* ---- raw input stream ---------------------------------------------------
\* rawStreamIn.Run, case in, ok := <-lsi.buf with ok: lsi.data.Write(in) starts
rawTake ==
    /\ ist.kind = "raw"
    /\ ist.wpc = "loop"
    /\ Len(ist.buf) > 0
    /\ ist' = [ist EXCEPT !.buf = Tail(@), !.item = Head(ist.buf), !.wpc = "write"]
    /\ UNCHANGED <<lastAck, dispVars, runCtx, idGen, outs, inls, wire, hctx, ost, pipe,
                   handVars, consumed, rcvd, decVars, ecVars, lastMsg,
                   otherVars>>

\* case in, ok := <-lsi.buf with !ok: the worker returns, lsi.data.Close()
rawEnd ==
    /\ ist.kind = "raw"
    /\ ist.wpc = "loop"
    /\ Len(ist.buf) = 0
    /\ ist.bufClosed
    /\ ist' = [ist EXCEPT !.wpc = "done", !.closed = TRUE]
    /\ UNCHANGED <<lastAck, dispVars, runCtx, idGen, outs, inls, wire, hctx, ost, pipe,
                   handVars, consumed, rcvd, decVars, ecVars, lastMsg,
                   otherVars>>

\* case <-ctx.Done(): the worker returns, lsi.data.Close(); a Write in
\* progress does not watch the context
rawCtxDone ==
    /\ ist.kind = "raw"
    /\ ist.wpc = "loop"
    /\ hctx # "none"
    /\ ist' = [ist EXCEPT !.wpc = "done", !.closed = TRUE]
    /\ UNCHANGED <<lastAck, dispVars, runCtx, idGen, outs, inls, wire, hctx, ost, pipe,
                   handVars, consumed, rcvd, decVars, ecVars, lastMsg,
                   otherVars>>

\* the handler reads the chunk from the reader getInput gave it: the Write of
\* the worker returns without error
RawInputRead ==
    /\ hpc = "run"
    /\ ist.wpc = "write"
    /\ ~ist.rclosed
    /\ consumed' = Append(consumed, ist.item)
    /\ ist' = [ist EXCEPT !.wpc = "ack"]
    /\ UNCHANGED <<lastAck, dispVars, runCtx, idGen, outs, inls, wire, hctx, ost, pipe,
                   handVars, rcvd, decVars, ecVars, lastMsg,
                   otherVars>>

\* the handler closes the reader
ReaderClose ==
    /\ hpc = "run"
    /\ ist.kind = "raw"
    /\ ~ist.rclosed
    /\ ist' = [ist EXCEPT !.rclosed = TRUE]
    /\ UNCHANGED <<lastAck, dispVars, runCtx, idGen, outs, inls, wire, hctx, ost, pipe,
                   handVars, consumed, rcvd, decVars, ecVars, lastMsg,
                   otherVars>>

\* lsi.data.Write(in) on a pipe whose reader is closed returns an error, which
\* the worker does not look at
rawWriteFail ==
    /\ ist.wpc = "write"
    /\ ist.rclosed
    /\ ist' = [ist EXCEPT !.wpc = "ack", !.failed = @ \cup {ist.item}]
    /\ UNCHANGED <<lastAck, dispVars, runCtx, idGen, outs, inls, wire, hctx, ost, pipe,
                   handVars, consumed, rcvd, decVars, ecVars, lastMsg,
                   otherVars>>

\* lsi.onAck(ctx, lsi.id) after the Write
rawAck ==
    /\ ist.kind = "raw"
    /\ ist.wpc = "ack"
    /\ wire' = outputMsg(wire, AckFrame(ist.id))
    /\ ist' = [ist EXCEPT !.wpc = "loop"]
    /\ UNCHANGED <<lastAck, dispVars, runCtx, idGen, outs, inls, hctx, ost, pipe,
                   handVars, consumed, rcvd, decVars, ecVars, lastMsg,
                   otherVars>>

\* ---- the writer mutex ---------------------------------------------------
\* p.m.Lock() returns when no goroutine holds the mutex
mutexFree_any(m) == TRUE
mutexFree(m) == m = "free"

\* outputMsg: b, err := p.serialize(data); the bytes of frame k of goroutine
\* g are in a buffer of its own
serialize(g) ==
    /\ wr[g].pc = "idle"
    /\ wr[g].k < MaxFrames
    /\ wr' = [wr EXCEPT ![g] = [pc |-> "ready", k |-> @.k + 1, n |-> 0]]
    /\ UNCHANGED <<mtx, outb, acq, plugVars, co, issued, cvVars, rngVars, engine>>

\* outputRaw: p.m.Lock()
outputRawLock(g) ==
    /\ wr[g].pc = "ready"
    /\ mutexFree(mtx)
    /\ mtx' = g
    /\ acq' = Append(acq, <<g, wr[g].k>>)
    /\ wr' = [wr EXCEPT ![g].pc = "locked"]
    /\ UNCHANGED <<outb, plugVars, co, issued, cvVars, rngVars, engine>>

\* outputRaw: p.out.Write(data) hands the bytes of the frame to the output, one
\* after the other
outWrite(g) ==
    /\ wr[g].pc = "locked"
    /\ wr[g].n < FrameLen
    /\ outb' = Append(outb, <<g, wr[g].k, wr[g].n + 1>>)
    /\ wr' = [wr EXCEPT ![g].n = @ + 1]
    /\ UNCHANGED <<mtx, acq, plugVars, co, issued, cvVars, rngVars, engine>>

\* outputRaw returns: defer p.m.Unlock()
outputRawUnlock(g) ==
    /\ wr[g].pc = "locked"
    /\ wr[g].n = FrameLen
    /\ mtx' = "free"
    /\ wr' = [wr EXCEPT ![g].pc = "idle"]
    /\ UNCHANGED <<outb, acq, plugVars, co, issued, cvVars, rngVars, engine>>

\* ---- id allocation ------------------------------------------------------
\* atomic.Uint32.Add: the sum in the width of the counter
uint32Add(a, d) == (a + d) % (2 ^ IdBits)

\* the places that take an id: newOutputListValue and newOutputListRaw,
\* Plugin.engineCall, and the encoding of a CustomValue
Sites == {"stream", "engineCall", "customValue"}

\* p.idGen.Add(1) at one of them: one atomic step gives the new value
idGenAdd(site) ==
    /\ Len(issued) < MaxAlloc
    /\ idGen' = uint32Add(idGen, 1)
    /\ issued' = Append(issued, [site |-> site, id |-> uint32Add(idGen, 1)])
    /\ UNCHANGED <<lastAck, dispVars, runCtx, outs, inls, wire, hctx, ost, pipe, handVars,
                   inVars, decVars, ecVars, lastMsg, co, lockVars, cvVars, rngVars, engine>>

\* ---- custom values ------------------------------------------------------
\* ExecCommand.ReturnValue with a Value that holds a CustomValue: after the
\* CompareAndSwap, outputMsg serializes the response in the handler's
\* goroutine; Value.encodeMsgpack takes an id, encodes the handle and starts
\* the assignment p.cvals[id] = tv, which no mutex guards
ReturnCustomValue ==
    /\ UserStep
    /\ mloop # "crashed"
    /\ IF casOutput(output)
       THEN /\ output' = "value"
            /\ idGen' = idGen + 1
            /\ cvw' = idGen + 1
            /\ hpc' = "encode"
            /\ usr' = usr
       ELSE /\ Returned("Value", "response has been already sent")
            /\ UNCHANGED <<output, idGen, cvw, hpc>>
    /\ UNCHANGED <<lastAck, dispVars, runCtx, outs, inls, wire, callID, hctx, inFlight,
                   ost, pipe, inVars, decVars, ecVars, lastMsg, co, issued, lockVars,
                   cvals, cvCalls, rngVars, engine>>

\* the assignment is complete, outputRaw writes the CallResponse and
\* ReturnValue returns
cvalsStored ==
    /\ hpc = "encode"
    /\ mloop # "crashed"
    /\ cvals' = cvals \cup {cvw}
    /\ cvw' = 0
    /\ wire' = outputMsg(wire, CallResponse(callID, "Value", cvw))
    /\ Returned("Value", "nil")
    /\ hpc' = "run"
    /\ UNCHANGED <<lastAck, dispVars, runCtx, idGen, outs, inls, callID, output, hctx,
                   inFlight, ost, pipe, inVars, decVars, ecVars, lastMsg, co, issued,
                   lockVars, cvCalls, rngVars, engine>>

\* cv, ok := p.cvals[cvOp.id] in the main loop while no goroutine is writing
\* the map, or when the read gets through beside the write: the entry being
\* written may or may not be seen
cvalsLookup(id) ==
    IF id \in cvals THEN {TRUE}
    ELSE IF id = cvw /\ cvw # 0 THEN {TRUE, FALSE}
    ELSE {FALSE}

\* the operations of a CustomValueOp call: one that answers with a Value, and
\* Dropped
CvOps == {"ToBaseValue", "Dropped"}

\* what handleCustomValueOp sends when the method of the CustomValue returned
\* without an error
opResponse(c, op) ==
    IF op = "Dropped" THEN CallResponse(c, "Empty", 0)
    ELSE CallResponse(c, "Value", 0)

\* handleMessage(call) -> handleCall -> handleCustomValueOp. Found: a method
\* of the CustomValue is called and its result sent. Not found: the error
\* goes to handleCallError, which sends CallResponse Error
customValueOp(c, id, op) ==
    /\ \E ok \in cvalsLookup(id) :
        IF ok
        THEN /\ cvCalls' = cvCalls + 1
             /\ wire' = outputMsg(wire, opResponse(c, op))
        ELSE /\ cvCalls' = cvCalls
             /\ wire' = outputMsg(wire, CallResponse(c, "Error", 0))
    /\ Handled("nil")

\* the read of p.cvals runs while another goroutine writes the map: the Go
\* runtime may stop the process ("fatal error: concurrent map read and map
\* write"), or the read gets through
handleCustomValueOp(c, id) ==
    /\ mloop = "reading"
    /\ Count("CallResponse", c) < MaxOps
    /\ lastMsg' = Msg("CustomValueOp", id)
    /\ \/ \E op \in CvOps : customValueOp(c, id, op)
       \/ /\ cvw # 0
          /\ mloop' = "crashed"
          /\ UNCHANGED <<loopErr, lastErr, wire, cvCalls>>
    /\ UNCHANGED <<lastAck, runCtx, ackRcvd, dropRcvd, idGen, outs, inls, hctx, ost, pipe, handVars,
                   inVars, decVars, ecVars, co, issued, lockVars, cvals, cvw, rngVars, engine>>

\* ---- IntRange -----------------------------------------------------------
MinInt == -(2 ^ (IntBits - 1))
MaxInt == (2 ^ (IntBits - 1)) - 1
Ints == MinInt..MaxInt

\* the value a signed integer of the width holds after an operation gave x
wrap(x) == ((x - MinInt) % (2 ^ IntBits)) + MinInt

RangeBounds == {"Included", "Excluded", "Unbounded"}
IntRanges == [Start : Ints, Step : Ints, End : Ints, Bound : RangeBounds]

\* IntRange.Validate: the error it returns ("nil" if none)
Validate(v) ==
    CASE v.Step > 0 ->
            IF v.Bound # "Unbounded" /\ v.Start > v.End
            THEN "start value must be smaller than end value" ELSE "nil"
      [] v.Step < 0 ->
            IF v.Bound # "Unbounded" /\ v.Start <= v.End
            THEN "start value must be greater than end value" ELSE "nil"
      [] OTHER -> "step must be non-zero"

\* add: c := a + b; return c, (c > a) == (b > 0)
add(a, b) ==
    LET c == wrap(a + b) IN [c |-> c, ok |-> ((c > a) = (b > 0))]

\* countUp: the value of end before the loop
countUpEnd(v) ==
    CASE v.Bound = "Unbounded" -> MaxInt
      [] v.Bound = "Included" -> v.End
      [] v.Bound = "Excluded" -> wrap(v.End - 1)

\* countDown: the value of end before the loop
countDownEnd(v) ==
    CASE v.Bound = "Unbounded" -> MinInt
      [] v.Bound = "Included" -> v.End
      [] v.Bound = "Excluded" -> wrap(v.End + 1)

\* IntRange.All and the start of the iterator function it returns
All ==
    /\ it.pc = "new"
    /\ it' = CASE rng.Step > 0 ->
                    [pc |-> "up", i |-> rng.Start, ok |-> TRUE, end |-> countUpEnd(rng)]
               [] rng.Step < 0 ->
                    [pc |-> "down", i |-> rng.Start, ok |-> TRUE,
                     end |-> countDownEnd(rng)]
               [] OTHER -> [NoIt EXCEPT !.pc = "done"]
    /\ UNCHANGED <<rng, yielded, plugVars, co, issued, lockVars, cvVars, engine>>

\* the loop condition: i <= end && ok counting up, i >= end && ok counting down
loopCond(l) ==
    /\ l.ok
    /\ IF l.pc = "up" THEN l.i <= l.end ELSE l.i >= l.end

\* one turn of the loop: yield(i) returns true and i, ok = add(i, v.Step)
countYield ==
    /\ it.pc \in {"up", "down"}
    /\ loopCond(it)
    /\ yielded' = Append(yielded, it.i)
    /\ it' = [it EXCEPT !.i = add(it.i, rng.Step).c, !.ok = add(it.i, rng.Step).ok]
    /\ UNCHANGED <<rng, plugVars, co, issued, lockVars, cvVars, engine>>

\* yield(i) returns false: the iterator function returns
countStop ==
    /\ it.pc \in {"up", "down"}
    /\ loopCond(it)
    /\ yielded' = Append(yielded, it.i)
    /\ it' = [it EXCEPT !.pc = "stopped"]
    /\ UNCHANGED <<rng, plugVars, co, issued, lockVars, cvVars, engine>>

\* the loop condition is false: the iterator function returns
countEnd ==
    /\ it.pc \in {"up", "down"}
    /\ ~loopCond(it)
    /\ it' = [it EXCEPT !.pc = "done"]
    /\ UNCHANGED <<rng, yielded, plugVars, co, issued, lockVars, cvVars, engine>>

\* ---- specifications -----------------------------------------------------
\* what the engine and the embedder do besides the frames of a stream
Lifecycle ==
    \/ Goodbye
    \/ EndOfInput
    \/ CancelRun
    \/ stopAll
    \/ RunReturn

\* the goroutine handleRun starts, after OnRun
HandlerExit ==
    \/ OnRunReturn
    \/ returnError
    \/ closeOutputStream
    \/ returnNothing
    \/ removeInFlight

\* a Run without input whose handler responds in any of the ways ExecCommand
\* offers
NextOut ==
    \/ handleRun("empty")
    \/ \E id \in FrameIds : handleAck(id)
    \/ \E id \in FrameIds : handleDrop(id)
    \/ dropCloseReader
    \/ Lifecycle
    \/ ReturnValue
    \/ ReturnListStream
    \/ ReturnRawStream
    \/ ListSend
    \/ ListClose
    \/ ListRunSend
    \/ ListRunClosed
    \/ RunAcked
    \/ RunCtxDone
    \/ RawWrite
    \/ RawWriteAbort
    \/ RawClose
    \/ RawRead
    \/ RawReadClosed
    \/ HandlerExit

SpecOut == Init /\ [][NextOut]_vars

\* a Run with a list stream as input whose handler reads it
NextIn ==
    \/ handleRun("list")
    \/ \E id \in FrameIds : handleData(id)
    \/ \E id \in FrameIds : handleEnd(id)
    \/ Lifecycle
    \/ ReturnValue
    \/ HandlerExit
    \/ workerTake
    \/ workerEnd
    \/ workerCtxDone
    \/ InputRead
    \/ workerAck

SpecIn == Init /\ [][NextIn]_vars

\* a Run whose handler answers with a Value, with every kind of top-level
\* message coming in
NextLoop ==
    \/ handleRun("empty")
    \/ \E id \in FrameIds : handleAck(id)
    \/ \E id \in FrameIds : handleDrop(id)
    \/ \E id \in FrameIds : handleData(id)
    \/ \E id \in FrameIds : handleEnd(id)
    \/ \E id \in EcIds : handleEngineCallResponse(id)
    \/ Interrupt
    \/ Ignored
    \/ UnknownTag
    \/ CallDecodeError
    \/ decodeRest
    \/ Lifecycle
    \/ ReturnValue
    \/ HandlerExit

SpecLoop == Init /\ [][NextLoop]_vars

\* a Run whose handler reads a list stream, answers with a list stream and
\* makes an engine call, and has not returned; the frames that name a stream
\* or an engine call come in
NextReg ==
    \/ handleRun("list")
    \/ \E id \in FrameIds : handleAck(id)
    \/ \E id \in FrameIds : handleDrop(id)
    \/ \E id \in FrameIds : handleData(id)
    \/ \E id \in FrameIds : handleEnd(id)
    \/ \E id \in EcIds : handleEngineCallResponse(id)
    \/ ReturnListStream
    \/ ListClose
    \/ ListRunClosed
    \/ RunCtxDone
    \/ EngineCallValue
    \/ EngineCallReturn
    \/ workerTake
    \/ workerEnd
    \/ workerCtxDone
    \/ InputRead
    \/ workerAck

SpecReg == Init /\ [][NextReg]_vars

\* a Run whose handler calls EvalClosure with a list stream as its input
NextEval ==
    \/ handleRun("empty")
    \/ \E id \in FrameIds : handleAck(id)
    \/ \E id \in FrameIds : handleDrop(id)
    \/ \E id \in EcIds : handleEngineCallResponse(id)
    \/ Goodbye
    \/ stopAll
    \/ RunReturn
    \/ EvalClosure
    \/ EngineCallReturn
    \/ cfgRegister
    \/ cfgTake
    \/ ArgClose
    \/ cfgArgClosed
    \/ cfgForward
    \/ cfgCtxDone
    \/ cfgCloseData
    \/ cfgClose
    \/ ListRunSend
    \/ ListRunClosed
    \/ RunAcked
    \/ RunCtxDone
    \/ HandlerExit

SpecEval == Init /\ [][NextEval]_vars

\* a Run with a raw stream as input whose handler reads it
NextRawIn ==
    \/ handleRun("raw")
    \/ \E id \in FrameIds : handleData(id)
    \/ \E id \in FrameIds : handleEnd(id)
    \/ Lifecycle
    \/ ReturnValue
    \/ HandlerExit
    \/ rawTake
    \/ rawEnd
    \/ rawCtxDone
    \/ RawInputRead
    \/ ReaderClose
    \/ rawWriteFail
    \/ rawAck

SpecRawIn == Init /\ [][NextRawIn]_vars

\* Run from its first statement: the start-up frames, then the main loop
NextRun ==
    \/ RunStart
    \/ NextLoop

SpecRun == InitRun /\ [][NextRun]_vars

\* goroutines that write frames at the same time
NextWrite ==
    \/ \E g \in Writers : serialize(g)
    \/ \E g \in Writers : outputRawLock(g)
    \/ \E g \in Writers : outWrite(g)
    \/ \E g \in Writers : outputRawUnlock(g)

SpecWrite == Init /\ [][NextWrite]_vars

\* a Run whose handler either answers with a stream or calls EvalClosure with
\* a list stream as its input; the engine sends Ack, Drop and
\* EngineCallResponse frames and the embedder may cancel Run's context
NextIntro ==
    \/ handleRun("empty")
    \/ \E id \in FrameIds : handleAck(id)
    \/ \E id \in FrameIds : handleDrop(id)
    \/ dropCloseReader
    \/ \E id \in EcIds : handleEngineCallResponse(id)
    \/ CancelRun
    \/ usr.ec = 0 /\ registerResponseStream("list")
    \/ usr.ec = 0 /\ registerResponseStream("raw")
    \/ sendStreamHeader
    \/ ListSend
    \/ ListClose
    \/ ListRunSend
    \/ ListRunClosed
    \/ RunAcked
    \/ RunCtxDone
    \/ RawWrite
    \/ RawWriteAbort
    \/ RawClose
    \/ RawRead
    \/ RawReadClosed
    \/ output = "nil" /\ EvalClosure
    \/ EngineCallReturn
    \/ cfgRegister
    \/ cfgTake
    \/ ArgClose
    \/ cfgArgClosed
    \/ cfgForward
    \/ cfgCtxDone
    \/ cfgCloseData
    \/ cfgClose
    \/ HandlerExit

SpecIntro == Init /\ [][NextIntro]_vars

\* a Run whose handler and a second goroutine each make an engine call; the
\* engine answers with EngineCallResponse frames
NextCalls ==
    \/ handleRun("empty")
    \/ \E id \in EcIds : handleEngineCallResponse(id)
    \/ CancelRun
    \/ EngineCallValue
    \/ EngineCallReturn
    \/ CoEngineCall
    \/ CoReturn
    \/ HandlerExit

SpecCalls == Init /\ [][NextCalls]_vars

\* goroutines taking ids in any order
NextIds == \E site \in Sites : idGenAdd(site)

SpecIds == Init /\ [][NextIds]_vars

\* a Run whose handler returns a custom value while the engine makes
\* CustomValueOp calls on handles the plugin knows and on handles it does not
NextCv ==
    \/ handleRun("empty")
    \/ ReturnCustomValue
    \/ cvalsStored
    \/ \E c \in CvCallIds, id \in CvIds : handleCustomValueOp(c, id)

SpecCv == Init /\ [][NextCv]_vars

\* any IntRange, and a consumer that ranges over All()
InitRange ==
    /\ mloop = "reading"
    /\ Constructed
    /\ rng \in IntRanges
    /\ it = [NoIt EXCEPT !.pc = "new"]
    /\ yielded = <<>>
    /\ FewData

NextRange ==
    \/ All
    \/ countYield
    \/ countStop
    \/ countEnd

SpecRange == InitRange /\ [][NextRange]_vars

\* ---- scheduling ---------------------------------------------------------
\* every goroutine of the plugin that can take a step eventually takes one
mainFair == WF_vars(dropCloseReader \/ stopAll \/ RunReturn)
streamFair ==
    WF_vars(ListRunSend \/ ListRunClosed \/ RunAcked \/ RunCtxDone \/ RawRead
            \/ RawReadClosed)
cfgFair ==
    WF_vars(cfgRegister \/ cfgArgClosed \/ cfgForward \/ cfgCtxDone \/ cfgCloseData
            \/ cfgClose)

\* the handler goroutine runs on after OnRun, a blocked call of the handler
\* returns when it can, and OnRun returns once its context is cancelled
handlerFair ==
    WF_vars(EngineCallReturn \/ RawWriteAbort \/ returnError \/ closeOutputStream
            \/ returnNothing \/ removeInFlight \/ (OnRunReturn /\ hctx # "none"))

LiveOut == SpecOut /\ mainFair /\ streamFair /\ handlerFair

\* a Run whose response is a stream, with an engine that sends only Acks: no
\* Drop arrives and no context is cancelled before the handler goroutine ends
NextClose ==
    \/ handleRun("empty")
    \/ \E id \in FrameIds : handleAck(id)
    \/ ReturnListStream
    \/ ReturnRawStream
    \/ ListSend
    \/ ListClose
    \/ ListRunSend
    \/ ListRunClosed
    \/ RunAcked
    \/ RawWrite
    \/ RawClose
    \/ RawRead
    \/ RawReadClosed
    \/ HandlerExit

SpecClose == Init /\ [][NextClose]_vars

\* a Run with a list stream as input and an engine that sends more Data
\* frames than listStreamIn.buf holds, whatever the handler reads
InitFlood ==
    /\ mloop = "reading" /\ Constructed /\ NoIter
    /\ engine = [maxData |-> MaxFlood, streams |-> FALSE]

NextFlood ==
    \/ handleRun("list")
    \/ \E id \in FrameIds : handleData(id)
    \/ receivedSent
    \/ Goodbye
    \/ stopAll
    \/ RunReturn
    \/ workerTake
    \/ workerCtxDone
    \/ InputRead
    \/ workerAck
    \/ HandlerExit

SpecFlood == InitFlood /\ [][NextFlood]_vars

\* a Run whose handler calls EvalClosure with a reader as its input, and an
\* engine that sends Acks and may drop the stream or say Goodbye
NextCopy ==
    \/ handleRun("empty")
    \/ \E id \in FrameIds : handleAck(id)
    \/ \E id \in FrameIds : handleDrop(id)
    \/ dropCloseReader
    \/ Goodbye
    \/ stopAll
    \/ EvalClosureRaw
    \/ cfgRawRegister
    \/ cfgCopy
    \/ ArgClose
    \/ cfgCopyEOF
    \/ cfgCopyAbort
    \/ cfgClose
    \/ RawRead
    \/ RawReadClosed
    \/ RunAcked
    \/ RunCtxDone

SpecCopy == Init /\ [][NextCopy]_vars

\* a Run whose handler calls EvalClosure, with an engine that may answer with
\* a list stream and then sends the Data and End frames of that stream
InitStreams ==
    /\ mloop = "reading" /\ Constructed /\ NoIter
    /\ engine = [maxData |-> MaxData, streams |-> TRUE]

NextStreams ==
    \/ handleRun("empty")
    \/ \E id \in EcIds : handleEngineCallResponse(id)
    \/ \E id \in FrameIds : handleData(id)
    \/ \E id \in FrameIds : handleEnd(id)
    \/ EvalClosure
    \/ EngineCallReturn
    \/ workerTake
    \/ workerEnd
    \/ workerCtxDone
    \/ InputRead
    \/ workerAck
    \/ HandlerExit

SpecStreams == InitStreams /\ [][NextStreams]_vars
LiveClose == SpecClose /\ streamFair /\ handlerFair

\* the worker goroutine of the input stream, and the main loop in its send
workerFair == WF_vars(workerTake \/ workerCtxDone \/ workerAck)
copyFair == WF_vars(cfgRawRegister \/ cfgCopyEOF \/ cfgCopyAbort \/ cfgClose)
LiveCopy == SpecCopy /\ mainFair /\ streamFair /\ copyFair

LiveFlood ==
    SpecFlood /\ mainFair /\ WF_vars(receivedSent) /\ workerFair /\ handlerFair
LiveEval == SpecEval /\ mainFair /\ streamFair /\ cfgFair /\ handlerFair

\* ---- claims -------------------------------------------------------------
\* C1: a call whose handler was started gets exactly one CallResponse frame:
\* never two at any time, and one once the handler goroutine has finished
C1_ExactlyOneCallResponse ==
    /\ Count("CallResponse", callID) <= 1
    /\ hpc = "done" => Count("CallResponse", callID) = 1

\* C2: for every output stream id the Data frames written exceed the Acks
\* received for the id by at most one
C2_OneUnackedData ==
    \A id \in FrameIds : Count("Data", id) <= ackRcvd[id] + 1

\* C3: for every output stream id at most one End frame is written and every
\* Data frame of the id precedes it
C3_DataThenEnd ==
    \A id \in FrameIds :
        /\ Count("End", id) <= 1
        /\ \A i \in Pos("Data", id), j \in Pos("End", id) : i < j

C3_Witness ==
    \E id \in FrameIds :
        /\ Count("End", id) = 1
        /\ \E i \in Pos("Data", id) : wire[i].k = "List"
        /\ \E i \in Pos("Data", id) : wire[i].k = "ListErr"

\* C4: when the input channel has been closed and the handler's context is not
\* cancelled, the handler has read exactly the Values received for the stream,
\* in the order received
C4_DeliveredEqualsReceived ==
    (ist.closed /\ hctx = "none") => consumed = rcvd

C4_Witness ==
    ist.closed /\ hctx = "none" /\ Len(rcvd) >= 2 /\ consumed = rcvd

\* C5: the Acks written for a list input stream never outnumber the items the
\* handler has taken, and every taken item but the one being acknowledged has
\* its Ack
C5_AckAfterDelivery ==
    \A id \in InIds :
        Count("Ack", id) = Len(consumed) - (IF ist.wpc = "ack" THEN 1 ELSE 0)

C5_Witness ==
    \E id \in InIds : Count("Ack", id) >= 2 /\ Count("Ack", id) = Len(consumed)

\* C6: for every input stream id every Ack frame written precedes the Drop
\* frame written
C6_AcksBeforeDrop ==
    \A id \in InIds :
        \A i \in Pos("Ack", id), j \in Pos("Drop", id) : i < j

\* a step in which the handler calls one of the three Return methods
ReturnCall == usr'.rets = usr.rets + 1

AlreadySent == "response has been already sent"

AckStep(id) == ackRcvd'[id] = ackRcvd[id] + 1 /\ id \in outs

UnexpectedAck == "received unexpected Ack"

DropStep(id) ==
    /\ dropRcvd'[id] = dropRcvd[id] + 1
    /\ id \in outs
    /\ hpc \in {"run", "writing"}

\* C9 as stated: handling the Drop cancels the handler's context with cause
\* ErrDropStream and removes the stream from the registry
C9_DropCancelsWithCause ==
    [][\A id \in FrameIds :
        DropStep(id) => (hctx' = "ErrDropStream" /\ id \notin outs')]_vars

\* C9 amended: handling the Drop removes the stream from the registry and
\* leaves the handler's context cancelled, with cause ErrDropStream unless it
\* was cancelled before, when the earlier cause stays
C9_DropCancels ==
    [][\A id \in FrameIds :
        DropStep(id) =>
            /\ id \notin outs'
            /\ hctx' = IF hctx = "none" THEN "ErrDropStream" ELSE hctx]_vars

C9_Witness ==
    \E id \in FrameIds :
        /\ dropRcvd[id] = 1
        /\ id \notin outs
        /\ ost.id = id
        /\ hctx = "ErrDropStream"
        /\ hpc = "run"

\* the Drop for the raw response stream has been handled
RawDropHandled ==
    /\ ost.kind = "raw"
    /\ ost.id \notin outs
    /\ mloop # "dropping"

\* C10: a Write the handler starts after the Drop for its raw stream has been
\* handled, on a writer the handler has not closed itself, fails with
\* ErrDropStream
C10_WriteAfterDropFails ==
    [][(RawDropHandled /\ ~usr.wclosed /\ usr'.writes = usr.writes + 1) =>
            usr'.wres = "ErrDropStream"]_vars

\* the engine has dropped the output stream: Drop was handled while it was
\* registered
Dropped(id) == ost.kind # "none" /\ ost.id = id /\ id \notin outs

\* C11: when the engine has dropped an output stream whose End frame is not
\* yet written, the End frame of the stream is eventually written
C11_DropThenEnd ==
    \A id \in FrameIds :
        (Dropped(id) /\ Count("End", id) = 0) ~> (Count("End", id) > 0)

\* the step of Run from the end of the main loop into CancelAndWait, with the
\* handler in flight
StopStep == mloop = "exited" /\ mloop' = "waiting" /\ inFlight

\* the cause context.Cause reports after cancel(err)
CauseOf(err) == IF err = "nil" THEN "Canceled" ELSE err

\* Run has returned only if the handler goroutine has returned, is
\* de-registered and its context is cancelled
ReturnedAfterHandlers ==
    mloop = "returned" =>
        /\ ~inFlight
        /\ hpc \in {"idle", "done"}
        /\ hpc = "done" => hctx # "none"

\* C12 as stated: Run returns only after the handler has returned and is
\* de-registered, and a handler in flight when the main loop ended is
\* cancelled with the value the main loop ended with as the cause
C12_CancelledWithLoopResult ==
    /\ []ReturnedAfterHandlers
    /\ [][StopStep => hctx' = CauseOf(loopErr)]_vars

\* C12 amended: as above, but the cause is the value the main loop ended with
\* only if the handler's context was not cancelled before; otherwise the
\* earlier cause stays
C12_CancelledBeforeReturn ==
    /\ []ReturnedAfterHandlers
    /\ [][StopStep =>
            hctx' = IF hctx = "none" THEN CauseOf(loopErr) ELSE hctx]_vars

C12_Witness ==
    /\ mloop = "returned"
    /\ loopErr = "ErrGoodbye"
    /\ hctx = "ErrGoodbye"
    /\ hpc = "done"
    /\ output = "list"

\* C13: once the main loop has ended on "Goodbye", Run eventually returns
\* ErrGoodbye
C13_GoodbyeReturns ==
    (lastMsg.tag = "Goodbye" /\ mloop = "exited")
        ~> (mloop = "returned" /\ loopErr = "ErrGoodbye")

\* the main loop has returned its result to Run
LoopEnded == mloop \in {"exited", "waiting", "returned"}

\* the result of a main loop that ended after decoding the message m
ResultAfter(m) ==
    CASE m.tag = "Goodbye" -> "ErrGoodbye"
      [] m.tag = "Interrupt" -> "ErrInterrupt"
      [] m.tag = "EOF" -> "nil"
      [] OTHER -> "Canceled"

\* C14: the result of the main loop, which Run returns, is ErrGoodbye after
\* "Goodbye", ErrInterrupt after the Signal "Interrupt" and nil after the end
\* of input, and while the run context is live nothing else ends the loop
C14_LoopResult ==
    /\ [](LoopEnded => loopErr = ResultAfter(lastMsg))
    /\ [][(~LoopEnded /\ LoopEnded' /\ runCtx = "live") =>
            lastMsg'.tag \in {"Goodbye", "Interrupt", "EOF"}]_vars

C14_Witness ==
    /\ mloop = "returned"
    /\ loopErr = "ErrInterrupt"
    /\ lastMsg.tag = "Interrupt"
    /\ runCtx = "live"
    /\ hpc = "done"

\* the main loop finishes with a top-level message after the run context was
\* cancelled
HandledAfterCancel ==
    /\ runCtx = "Canceled"
    /\ mloop \in {"reading", "resync", "dropping"}
    /\ mloop' \notin {mloop, "dropping"}

\* C15 as stated: once the run context is cancelled, the next message decoded
\* and handled ends the main loop with the context's error, and Run returns
\* after the handlers
C15_NextMessageEndsRun ==
    /\ []ReturnedAfterHandlers
    /\ [][HandledAfterCancel =>
            (mloop' = "exited" /\ loopErr' = "Canceled")]_vars

\* C15 amended: once the run context is cancelled, the next message decoded
\* and handled ends the main loop, with the context's error unless that
\* message is "Goodbye", the Signal "Interrupt" or the end of input, which
\* give their own result; Run returns after the handlers
C15_NextMessageEndsLoop ==
    /\ []ReturnedAfterHandlers
    /\ [][HandledAfterCancel =>
            (mloop' = "exited" /\ loopErr' = ResultAfter(lastMsg'))]_vars

C15_Witness ==
    /\ mloop = "returned"
    /\ runCtx = "Canceled"
    /\ loopErr = "Canceled"
    /\ lastMsg.tag = "Ack"
    /\ hctx = "Canceled"
    /\ hpc = "done"

\* C16: what a message with an unknown tag leaves in the input is not decoded
\* as a top-level message: the main loop neither handles it nor ends on it
C16_UnknownTagSkipped ==
    [][(lastMsg.tag = "unknown" /\ mloop = "resync") =>
            (mloop' = mloop /\ lastMsg' = lastMsg /\ lastErr' = lastErr)]_vars

\* C17: a Call frame whose decode failed after its id was read is answered
\* with a CallResponse Error for that id
C17_DecodeErrorAnswered ==
    badCall # 0 =>
        \E i \in Pos("CallResponse", badCall) : wire[i].k = "Error"

\* the main loop decodes and handles the message m
Decoded(m) ==
    /\ mloop = "reading"
    /\ lastMsg' = m
    /\ <<lastMsg, lastErr, ackRcvd, dropRcvd>>' # <<lastMsg, lastErr, ackRcvd, dropRcvd>>

\* the message of the step names an id that is not in the registry it
\* belongs to
MissStep ==
    \E id \in FrameIds \cup EcIds :
        \/ (Decoded(Msg("Ack", id)) \/ Decoded(Msg("Drop", id))) /\ id \notin outs
        \/ (Decoded(Msg("Data", id)) \/ Decoded(Msg("End", id))) /\ id \notin inls
        \/ Decoded(Msg("EngineCallResponse", id)) /\ id \notin engc

\* C18: a frame that names an id missing from its registry is reported as an
\* error and nothing else: no frame is written, no registry, stream, channel
\* or context changes, and the main loop reads on
C18_MissOnlyReported ==
    [][MissStep =>
            /\ lastErr' # "nil"
            /\ mloop' = "reading"
            /\ UNCHANGED <<wire, outs, inls, engc, ost, pipe, ist, rcvd, consumed, ch,
                           hctx, idGen, handVars>>]_vars

C18_Witness ==
    /\ lastMsg = Msg("EngineCallResponse", 2)
    /\ lastErr = "unregistered Engine Call Response"
    /\ usr.ec # 0
    /\ ch[usr.ec] = "taken"
    /\ ost.kind = "list"
    /\ ost.id \notin outs
    /\ ist.bufClosed

\* the item the worker of the input stream holds for the handler
Pending == IF ist.wpc = "offer" THEN <<ist.item>> ELSE <<>>

\* while the worker runs, what the handler has read, the item offered to it
\* and the items buffered are the Values received, in the order received
NoneDropped ==
    ist.wpc \in {"loop", "offer", "ack"} =>
        consumed \o Pending \o ist.buf = rcvd

\* a Data frame for the registered input stream id is handled
DataStep(id) ==
    /\ mloop = "reading"
    /\ lastMsg' = Msg("Data", id)
    /\ id \in inls
    /\ <<lastMsg, lastErr, rcvd>>' # <<lastMsg, lastErr, rcvd>>

EndStep(id) ==
    /\ mloop = "reading"
    /\ lastMsg' = Msg("End", id)
    /\ id \in inls

C21_AckOnlyWritten ==
    ist.kind = "raw" => \A id \in InIds : Count("Ack", id) <= Len(consumed)

\* C22: the step that reports the error OnRun returned writes one frame: a
\* CallResponse Error of the call when the response slot holds no stream, a
\* Data frame with a Raw Err on the raw response stream, a Data frame with an
\* error Value on the list response stream; the End frame of that stream is
\* not yet written at that step and every error Data frame precedes it
ErrorStep == hpc = "retErr" /\ hpc' = "close"

ErrorLane ==
    CASE output = "raw" -> DataFrame(ost.id, "RawErr", 0)
      [] output = "list" -> DataFrame(ost.id, "ListErr", 0)
      [] OTHER -> CallResponse(callID, "Error", 0)

ErrorBeforeEnd ==
    \A i \in 1..Len(wire), j \in 1..Len(wire) :
        (/\ wire[i].t = "Data" /\ wire[i].k \in {"RawErr", "ListErr"}
         /\ wire[j].t = "End" /\ wire[j].id = wire[i].id) => i < j

C22_ErrorLane ==
    /\ [][ErrorStep => /\ usr.err = "err"
                       /\ wire' = Append(wire, ErrorLane)
                       /\ output \in {"raw", "list"} => Count("End", ost.id) = 0]_vars
    /\ []ErrorBeforeEnd
    /\ [](hpc \in {"close", "retNothing", "remove", "done"} /\ usr.err = "err"
            => \E i \in 1..Len(wire) : wire[i] = ErrorLane)

C22_Witness ==
    /\ output = "raw"
    /\ usr.err = "err"
    /\ \E i \in Pos("Data", ost.id), j \in Pos("End", ost.id) :
        wire[i].k = "RawErr" /\ i < j

\* C23: the output of Run starts with the encoding marker (length byte 7 and
\* the seven letters of "msgpack") followed by the Hello frame, nothing is
\* written before the two, and a Call that is the first frame the engine sends
\* (no Hello before it) starts its handler
StartWritten == mloop \notin {"start", "hello"}

C23_MarkerThenHello ==
    /\ [](/\ Len(wire) >= 1 =>
                /\ wire[1].t = "encoding"
                /\ wire[1].k = "msgpack"
                /\ wire[1].id = 7
          /\ Len(wire) >= 2 => wire[2].t = "Hello"
          /\ StartWritten => Len(wire) >= 2
          /\ ~StartWritten => lastMsg.tag = "none" /\ hpc = "idle")
    /\ [][mloop = "hello" /\ mloop' # mloop => mloop' = "reading"]_vars
    /\ [][lastMsg.tag = "none" /\ lastMsg'.tag = "Call" /\ lastMsg'.id \in CallIds
            => hpc' = "run"]_vars

C23_Witness ==
    /\ Len(wire) = 3
    /\ wire[1] = format_mpack
    /\ wire[2] = helloFrame
    /\ wire[3] = CallResponse(callID, "Value", 0)
    /\ lastMsg = Msg("Call", callID)

\* C24: the bytes on the output are the frames in the order in which their
\* writers locked the mutex, each frame's bytes together and in order
C24_FramesContiguous ==
    \A i \in 1..Len(outb) :
        LET f == ((i - 1) \div FrameLen) + 1
            b == ((i - 1) % FrameLen) + 1
        IN /\ f <= Len(acq)
           /\ outb[i] = <<acq[f][1], acq[f][2], b>>

C24_Witness ==
    /\ Len(outb) >= 2 * FrameLen
    /\ outb[1][1] # outb[FrameLen + 1][1]
    /\ \E g \in Writers : wr[g].pc = "ready" /\ mtx \notin {"free", g}

\* C25: every Data and End frame on the output for a stream id follows a
\* frame that introduces the id: a CallResponse whose PipelineData header
\* names the stream, or an EngineCall whose input is the stream
Introduces(f, sid) ==
    \/ f.t = "CallResponse" /\ f.k \in {"ListStream", "ByteStream"} /\ f.v = sid
    \/ f.t = "EngineCall" /\ f.input = sid

C25_IntroducedFirst ==
    \A j \in 1..Len(wire) :
        wire[j].t \in {"Data", "End"} =>
            \E i \in 1..(j - 1) : Introduces(wire[i], wire[j].id)

C25_Witness ==
    \E i \in 1..Len(wire), j \in 1..Len(wire), k \in 1..Len(wire) :
        /\ i < j /\ j < k
        /\ wire[i].t = "EngineCall" /\ wire[i].input = wire[j].id
        /\ wire[j].t = "Data"
        /\ wire[k].t = "End" /\ wire[k].id = wire[j].id
        /\ \A n \in 1..Len(wire) : wire[n].t # "CallResponse"

\* the main loop handles an EngineCallResponse that names id
EcrStep(id) ==
    /\ mloop = "reading"
    /\ lastMsg' = Msg("EngineCallResponse", id)
    /\ hpc' = hpc
    /\ co' = co
    /\ <<lastMsg, lastErr, ch, engc>>' # <<lastMsg, lastErr, ch, engc>>

\* C26: an EngineCallResponse for a registered id puts the response on the
\* channel of that id and on no other channel and removes the id from the
\* registry; for an unregistered id it is reported and no channel changes; a
\* channel that got its response is not registered any more and gets no
\* second one
C26_OneResponsePerCall ==
    /\ [][\A id \in EcIds :
            EcrStep(id) =>
                IF id \in engc
                THEN /\ ch' = [ch EXCEPT ![id] = "value"]
                     /\ engc' = engc \ {id}
                     /\ lastErr' = "nil"
                ELSE /\ ch' = ch
                     /\ engc' = engc
                     /\ lastErr' = "unregistered Engine Call Response"]_vars
    /\ [](\A id \in ChanIds : ch[id] \in {"value", "taken"} => id \notin engc)
    /\ [][\A id \in ChanIds : ch[id] = "taken" => ch'[id] = "taken"]_vars

C26_Witness ==
    /\ usr.ec # 0
    /\ co.ec # 0
    /\ ch[usr.ec] = "taken"
    /\ ch[co.ec] = "value"
    /\ lastMsg = Msg("EngineCallResponse", usr.ec)
    /\ lastErr = "unregistered Engine Call Response"

\* C27: the ids taken from the counter, at whichever site, are pairwise
\* distinct
C27_IdsDistinct ==
    \A i \in 1..Len(issued), j \in 1..Len(issued) :
        i # j => issued[i].id # issued[j].id

\* the main loop handles a CustomValueOp of call c on a handle id that is not
\* in the table and is not being stored either
CvMissStep(c, id) ==
    /\ mloop = "reading"
    /\ lastMsg' = Msg("CustomValueOp", id)
    /\ id \notin cvals \cup {cvw}
    /\ <<wire, mloop, lastMsg>>' # <<wire, mloop, lastMsg>>
    /\ hpc' = hpc

\* C28: a CustomValueOp on a handle id that is not in the table is answered
\* with one CallResponse Error of the call, and no CustomValue method is
\* called
C28_UnknownHandleAnswered ==
    [][\A c \in CvCallIds, id \in CvIds :
            CvMissStep(c, id) =>
                /\ wire' = Append(wire, CallResponse(c, "Error", 0))
                /\ cvCalls' = cvCalls]_vars

\* the term Start + k*Step lies within the range and within the integers of
\* the width
InRange(v, x) ==
    IF v.Step > 0
    THEN /\ x <= MaxInt
         /\ CASE v.Bound = "Included" -> x <= v.End
              [] v.Bound = "Excluded" -> x < v.End
              [] OTHER -> TRUE
    ELSE /\ x >= MinInt
         /\ CASE v.Bound = "Included" -> x >= v.End
              [] v.Bound = "Excluded" -> x > v.End
              [] OTHER -> TRUE

\* the terms Start, Start+Step, ... up to the first one out of range
Terms(v) ==
    LET n == Cardinality({k \in 0..(2 ^ IntBits) : InRange(v, v.Start + k * v.Step)})
    IN [k \in 1..n |-> v.Start + (k - 1) * v.Step]

IsPrefix(a, b) == Len(a) <= Len(b) /\ \A k \in 1..Len(a) : a[k] = b[k]

\* C29: for a range that passes Validate the values yielded so far are the
\* first terms of the range, and when the loop has ended by itself they are
\* all of its terms
C29_YieldsTerms ==
    Validate(rng) = "nil" =>
        /\ IsPrefix(yielded, Terms(rng))
        /\ it.pc = "done" => yielded = Terms(rng)

\* C30: for a range that fails Validate no value is yielded
C30_InvalidYieldsNothing ==
    Validate(rng) # "nil" => yielded = <<>>

\* ---- raw output stream: the bytes on the wire ---------------------------
RECURSIVE Concat(_)
Concat(ss) == IF ss = <<>> THEN <<>> ELSE Head(ss) \o Concat(Tail(ss))

\* the byte payloads of the Data frames written for the response stream
IsRawData(f) == f.t = "Data" /\ f.k = "Raw" /\ f.id = ost.id
RawPayloads == [i \in 1..Len(SelectSeq(wire, IsRawData)) |->
                   SelectSeq(wire, IsRawData)[i].v]

\* the run loop of the raw response stream has read io.EOF and returned nil
RawStreamEnded == ost.kind = "raw" /\ ost.done /\ ost.err = "nil"

\* C31: the Data payloads of a raw output stream are non-empty and at most
\* bufSize long, a payload shorter than bufSize is the last one and is sent
\* after the writer was closed, and once the run loop has read the end of
\* what the handler wrote the payloads together are the bytes the handler
\* wrote, in order
C31_RawBytesInOrder ==
    ost.kind = "raw" =>
        /\ \A i \in 1..Len(RawPayloads) :
              /\ Len(RawPayloads[i]) \in 1..BufSize
              /\ Len(RawPayloads[i]) < BufSize =>
                    i = Len(RawPayloads) /\ usr.wclosed
        /\ IsPrefix(Concat(RawPayloads), usr.wrote)
        /\ RawStreamEnded => Concat(RawPayloads) = usr.wrote

C31_Witness ==
    /\ RawStreamEnded
    /\ Len(RawPayloads) = 2
    /\ Len(RawPayloads[2]) < BufSize
    /\ Len(usr.wrote) = BufSize + 1
    /\ usr.writes = 2

\* ---- the end of a response stream ---------------------------------------
\* OnRun has returned with a response stream in the slot, and the handler
\* goroutine has not finished
OnRunReturned == hpc \in {"retErr", "close"} /\ output \in {"list", "raw"}

\* the handler closed the channel or the writer of its response stream
ClosedByHandler ==
    \/ output = "list" /\ ost.chClosed
    \/ output = "raw" /\ usr.wclosed

\* the End frame of the response stream is written after all its Data frames
\* and the call is no longer in flight
StreamEnded ==
    /\ Count("End", ost.id) = 1
    /\ \A i \in Pos("Data", ost.id), j \in Pos("End", ost.id) : i < j
    /\ ~inFlight

\* the engine acknowledges each Data frame: the run loop of the stream does
\* not wait for an Ack forever
EngineAcks == []<>(ost.pc # "waitack")

\* C32 as stated: with an engine that acknowledges each Data frame, and no
\* Drop and no cancellation, a response stream is ended and the call leaves
\* the in-flight table after OnRun has returned, whether or not the handler
\* closed its channel or writer
C32_EndAfterReturn == EngineAcks => (OnRunReturned ~> StreamEnded)

\* C32: the same for a handler that closed its channel or writer before it
\* returned
C32_EndAfterClosedReturn ==
    EngineAcks => ((OnRunReturned /\ ClosedByHandler) ~> StreamEnded)

C32_Witness ==
    /\ StreamEnded
    /\ hpc = "done"
    /\ hctx = "Canceled"
    /\ usr.err = "err"
    /\ ClosedByHandler
    /\ \E i \in Pos("Data", ost.id) : wire[i].k \in {"List", "Raw"}

\* ---- End of an input stream ---------------------------------------------
\* a Data or End frame for id is handled while id is not a registered input
\* stream
LateStep(id) ==
    /\ mloop = "reading"
    /\ lastMsg' \in {Msg("Data", id), Msg("End", id)}
    /\ id \notin inls
    /\ <<lastMsg, lastErr, rcvd>>' # <<lastMsg, lastErr, rcvd>>

\* C33: End(id) for a registered input stream removes its registry entry and
\* writes Drop(id); Drop(id) is written once only, the id stays out of the
\* registry afterwards, and every later Data or End for it is reported as an
\* unknown input stream and changes nothing else
C33_EndDropsOnce ==
    /\ [][\A id \in FrameIds :
            /\ EndStep(id) =>
                  /\ id \notin inls'
                  /\ wire' = Append(wire, DropFrame(id))
                  /\ lastErr' = "nil"
            /\ LateStep(id) =>
                  /\ lastErr' = "unknown input stream"
                  /\ UNCHANGED <<wire, inls, ist, rcvd, consumed>>]_vars
    /\ [](\A id \in FrameIds :
            /\ Count("Drop", id) <= 1
            /\ Count("Drop", id) = 1 => id \notin inls)

C33_Witness ==
    \E id \in InIds :
        /\ Count("Drop", id) = 1
        /\ lastMsg = Msg("Data", id)
        /\ lastErr = "unknown input stream"
        /\ Len(rcvd) = 1

\* ---- the engine-call registry after the helper returned -----------------
\* the step in which the select of an engine-call helper returns
HelperReturns == hpc = "ecwait" /\ hpc' = "run"

\* C34: when an engine-call helper returns, the engine-call registry holds
\* no entry for the id of its call
C34_NoEntryAfterReturn == [][HelperReturns => usr.ec \notin engc']_vars

\* ---- the custom-value table after Dropped -------------------------------
\* the main loop handles the Dropped operation of call c on the handle id,
\* found in the table, and answers it
DroppedStep(c, id) ==
    /\ mloop = "reading"
    /\ lastMsg' = Msg("CustomValueOp", id)
    /\ wire' = Append(wire, opResponse(c, "Dropped"))

\* C35: when a CustomValueOp Dropped for a handle has been handled, the
\* custom-value table does not contain the handle
C35_DroppedRemoved ==
    [][\A c \in CvCallIds, id \in CvIds :
            DroppedStep(c, id) => id \notin cvals']_vars

\* ---- access to the custom-value table ------------------------------------
\* the main loop reads p.cvals for a CustomValueOp on the handle id
CvReadStep(id) ==
    /\ mloop = "reading"
    /\ lastMsg' = Msg("CustomValueOp", id)
    /\ <<wire, mloop, lastMsg>>' # <<wire, mloop, lastMsg>>
    /\ hpc' = hpc

\* a handler goroutine is in the assignment p.cvals[id] = tv
CvWriting == hpc = "encode" /\ cvw # 0

\* C36: the accesses to the custom-value table exclude each other: the main
\* loop does not read the table while a handler goroutine is writing it
C36_TableAccessExclusive ==
    [][\A id \in CvIds : CvReadStep(id) => ~CvWriting]_vars

\* ---- the dispatcher in handleData ---------------------------------------
\* the main loop is inside handleData, in the send on the stream's buffer
InHandleData == mloop = "sending"

\* C37: handling a Data frame returns: the main loop does not stay in
\* handleData forever, whatever the consumer of the stream does
C37_DataReturns == InHandleData ~> ~InHandleData

\* ---- a stream in an EngineCallResponse ----------------------------------
\* the main loop has handled an EngineCallResponse that carries the header of
\* a list stream, and no End of a registered stream has been handled since
Announced ==
    /\ usr.ec # 0
    /\ cfg.pc # "none"
    /\ \/ ch[usr.ec] = "stream"
       \/ ch[usr.ec] = "taken" /\ ist.kind = "list"
    /\ \A id \in InIds : Count("Drop", id) = 0

\* a Data or End frame for the stream id is handled
StreamFrameStep(id) ==
    /\ mloop = "reading"
    /\ lastMsg' \in {Msg("Data", id), Msg("End", id)}
    /\ <<lastMsg, lastErr, rcvd, inls>>' # <<lastMsg, lastErr, rcvd, inls>>

\* C38: once the main loop has handled an EngineCallResponse with a list
\* stream header, no Data or End frame for the stream is reported as an
\* unknown input stream
C38_StreamKnown ==
    [][\A id \in InIds :
            (Announced /\ StreamFrameStep(id)) =>
                lastErr' # "unknown input stream"]_vars

\* ---- the order of the Data frames of a list stream -----------------------
\* positions on the wire of the Data frames of the response stream that carry
\* a value the handler sent, and of the one that carries its error
ValueData == {i \in Pos("Data", ost.id) : wire[i].k = "List"}
ErrorData == {i \in Pos("Data", ost.id) : wire[i].k = "ListErr"}

\* C39: the Data frames of a list response stream carry the values in the
\* order the handler sent them, and the Data frame with the error the handler
\* returned comes after the Data frames of all the values
C39_ValuesThenError ==
    ost.kind = "list" =>
        /\ \A i, j \in ValueData : i < j => wire[i].v < wire[j].v
        /\ \A e \in ErrorData, i \in ValueData : i < e

\* ---- a reader passed to an engine call -----------------------------------
\* io.Copy has returned on the end of the reader given to InputRawStream
CopyDone ==
    /\ ost.kind = "raw"
    /\ cfg.pc \in {"close", "done"}
    /\ cfg.argClosed
    /\ ~PipeDone(pipe)

\* every byte read from the reader is in a Data frame and End is written
CopiedAndEnded ==
    /\ Concat(RawPayloads) = usr.wrote
    /\ Count("End", ost.id) = 1

\* the engine does not drop the stream and the handler's context is not
\* cancelled
NotCancelled == [](hctx = "none" /\ \A id \in FrameIds : dropRcvd[id] = 0)

\* C40: with an engine that acknowledges each Data frame and sends no Drop,
\* and a context that stays live, once the reader given to InputRawStream
\* has reached EOF all the bytes read from it are written as Data frames and
\* End is written
C40_CopiedThenEnd ==
    (EngineAcks /\ NotCancelled) => (CopyDone ~> CopiedAndEnded)
====
